---- MODULE Spec2Model ----
(***************************************************************************)
(* A model of the AT-command modem handlers of ubntomar/iot-modem-manager. *)
(* Two generations of the ModemHandler class are modelled:                 *)
(*   variant "mh"  src/modem_handler.py      (queue-based wait, retries)   *)
(*   variant "ba"  src/basic_at_commands.py  (serial-reading wait, SMS out)*)
(* Text (commands, modem lines, returned strings) is a sequence of         *)
(* one-character strings, so that startswith / in / == / strip are         *)
(* computed on the characters, as the Python code computes them.           *)
(* A multi-line Python string ('\n'.join(lines)) is the sequence of its    *)
(* lines; '' and None are both the empty sequence of lines.                *)
(* Every thread runs a stack of frames [fn, pc, cmd, msg, n, resp, w]: fn  *)
(* is the method, pc the position in it, cmd its text argument, msg its    *)
(* second text argument, n its loop counter, resp its accumulated lines,   *)
(* w the writes it has made.                                               *)
(***************************************************************************)
EXTENDS Naturals, Sequences, FiniteSets, TLC

\* ------------------------------------------------------------------ bounds
\* lines the modem may emit in one run
MaxEmit == 2
\* how many of them it may emit before main has started its threads
MaxEmitBoot == 1
\* commands typed by the interactive user in one run
MaxMainCmds == 1
\* reader threads that can ever be started (one per successful connect)
MaxReaders == 2
\* the longest string given to decode_hex_string on its own
MaxHexLen == 4
\* the longest text that is encoded and then given to decode_hex_string
MaxTextLen == 3

\* ------------------------------------------------------- program constants
\* send_command(..., max_attempts=3)
max_attempts == 3
\* the number of consecutive `while self.running` loops of listen_for_events
ListenLoops == 5

\* -------------------------------------------------------------------- text
OK == <<"O", "K">>
ERROR == <<"E", "R", "R", "O", "R">>
PROMPT == <<">">>
RING == <<"R", "I", "N", "G">>
CMS_ERROR_PREFIX == <<"+", "C", "M", "S", " ", "E", "R", "R", "O", "R", ":">>
CMGS_TOKEN == <<"+", "C", "M", "G", "S", ":">>
CMTI_TOKEN == <<"+", "C", "M", "T", "I", ":">>
CMGR_TOKEN == <<"+", "C", "M", "G", "R", ":">>
CMTI_1 == <<"+", "C", "M", "T", "I", ":", " ", "\"", "M", "E", "\"", ",", "1">>
HELLO == <<"H", "e", "l", "l", "o">>
EMPTY_LINE == <<>>
AT == <<"A", "T">>
AT_CMGF_1 == <<"A", "T", "+", "C", "M", "G", "F", "=", "1">>
\* 'AT+CPMS="ME","ME","ME"' and its "SM" and "MT" forms
AT_CPMS(mem) ==
    LET q == <<"\"">> \o mem \o <<"\"">>
    IN  <<"A", "T", "+", "C", "P", "M", "S", "=">> \o q \o <<",">> \o q \o <<",">> \o q
AT_CNMI == <<"A", "T", "+", "C", "N", "M", "I", "=", "2", ",", "1", ",", "0", ",", "0", ",", "0">>
AT_CLIP_1 == <<"A", "T", "+", "C", "L", "I", "P", "=", "1">>
AT_CPMS_Q == <<"A", "T", "+", "C", "P", "M", "S", "?">>
AT_CSCS_GSM == <<"A", "T", "+", "C", "S", "C", "S", "=", "\"", "G", "S", "M", "\"">>
AT_CMGR_EQ == <<"A", "T", "+", "C", "M", "G", "R", "=">>
AT_CMGD_EQ == <<"A", "T", "+", "C", "M", "G", "D", "=">>
ERR_NOT_CONNECTED == <<"E", "r", "r", "o", "r", ":", " ", "M", "o", "d", "e", "m", " ", "n", "o", "t", " ", "c", "o", "n", "n", "e", "c", "t", "e", "d">>
ERR_NO_RESPONSE == <<"E", "r", "r", "o", "r", ":", " ", "N", "o", " ", "r", "e", "s", "p", "o", "n", "s", "e", " ", "f", "r", "o", "m", " ", "m", "o", "d", "e", "m">>
RESPONSE_PHONE_NUMBER == <<"3", "1", "4", "7", "6", "5", "4", "6", "5", "5">>
UNKNOWN == <<"U", "n", "k", "n", "o", "w", "n">>
ERR_EXCEPTION == <<"E", "r", "r", "o", "r", ":", " ", "w", "r", "i", "t", "e", " ", "f", "a", "i", "l", "e", "d">>
WHITESPACE == {" ", "\t", "\r", "\n"}

\* str.startswith(prefix)
StartsWith(s, prefix) ==
    /\ Len(s) >= Len(prefix)
    /\ SubSeq(s, 1, Len(prefix)) = prefix

\* `sub in s` for two single-line strings
InStr(sub, s) ==
    \E i \in 0..Len(s) :
        /\ i + Len(sub) <= Len(s)
        /\ SubSeq(s, i + 1, i + Len(sub)) = sub

\* `sub in text` where text is the '\n'.join of `lines` and sub has no '\n'
InText(sub, lines) == \E i \in 1..Len(lines) : InStr(sub, lines[i])

\* str.strip()
Strip(s) ==
    LET inner == {i \in 1..Len(s) : s[i] \notin WHITESPACE}
        first == CHOOSE i \in inner : \A j \in inner : i <= j
        last == CHOOSE i \in inner : \A j \in inner : j <= i
    IN  IF inner = {} THEN <<>> ELSE SubSeq(s, first, last)

\* ------------------------------------------------------------------- state
VARIABLES
    variant,              \* which script runs: "mh" or "ba"
    ser,                  \* self.ser: "none" (None), "open", "closed"
    running,              \* self.running
    lock,                 \* self.lock: the thread holding it, or NoThread
    current_command,      \* self.current_command (NONE when None)
    response_queue,       \* self.response_queue
    event_queue,          \* self.event_queue
    outgoing_sms_queue,   \* self.outgoing_sms_queue ("ba")
    processed_messages,   \* self.processed_messages
    last_cmti_timestamp,  \* self.last_cmti_timestamp, as the time since it was
                          \* set: 0 never set, 1 possibly less than 2 s ago,
                          \* 2 at least 2 s ago ("ba", which has no such
                          \* attribute: the time since the last notification
                          \* was dispatched)
    read_thread,          \* self.read_thread: the reader started last, 0 if none
    rx,                   \* the serial port's input buffer: lines received, unread
    lastWrite,            \* the last command written to the port, and by whom
    emitted,              \* how many lines the modem has emitted
    script,               \* the lines a scripted modem has still to send
    input,                \* what the interactive user has still to type
    stack,                \* per thread: its call stack
    ret,                  \* per thread: the value its last call returned
    readerPc,             \* per reader thread: its position in read_serial
    readerLines           \* per reader thread: `lines`, still to classify

vars == <<variant, script, ser, running, lock, current_command, response_queue,
          event_queue, outgoing_sms_queue, processed_messages,
          last_cmti_timestamp, read_thread, rx, lastWrite, emitted, input,
          stack, ret, readerPc, readerLines>>

Threads == {"main", "disp", "out"}
Readers == 1..MaxReaders
NoThread == "nobody"
NONE == <<"None">>
NoWrite == [by |-> NoThread, cmd |-> NONE]

\* a line on its way from the modem; `stale` records that it arrived before
\* the first write of the send_command call that is now in flight
Line(text) == [text |-> text, stale |-> FALSE]
MarkStale(ls) == [i \in 1..Len(ls) |-> [ls[i] EXCEPT !.stale = TRUE]]

\* Python truthiness of self.current_command
Truthy(c) == c # NONE /\ c # <<>>

\* ------------------------------------------------------------- call stacks
Frame(fn, pc, cmd) ==
    [fn |-> fn, pc |-> pc, cmd |-> cmd, msg |-> <<>>, n |-> 0, resp |-> <<>>, w |-> 0]
Top(t) == stack[t][Len(stack[t])]
At(t, fn, pc) == stack[t] # <<>> /\ Top(t).fn = fn /\ Top(t).pc = pc
\* the top frame moves to pc
Goto(t, pc) == [stack EXCEPT ![t][Len(stack[t])].pc = pc]
\* the top frame becomes f
SetTop(t, f) == [stack EXCEPT ![t][Len(stack[t])] = f]
\* the top frame calls callee and will continue at pc
Call(t, pc, callee) == [stack EXCEPT ![t] = Append([@ EXCEPT ![Len(@)].pc = pc], callee)]
\* the top frame returns
Pop(t) == [stack EXCEPT ![t] = SubSeq(@, 1, Len(@) - 1)]
RetVal(ok, text) == [ok |-> ok, text |-> text]
NoRet == RetVal(FALSE, <<>>)

\* ------------------------------------------------------------------- Init
\* the sessions of at most MaxMainCmds commands the interactive user has not
\* ended: "mh" takes every line but quit as an AT command, "ba" knows at,
\* send_sms and quit
Sessions(v) ==
    LET words == IF v = "mh" THEN {"at"} ELSE {"at", "send_sms"}
    IN  UNION {[1..n -> words] : n \in 0..MaxMainCmds}
\* a session, which the user may end with quit
UserInputs(v) == Sessions(v) \cup {Append(s, "quit") : s \in Sessions(v)}

Init ==
    /\ variant \in {"mh", "ba"}
    /\ ser = "none"
    /\ running = FALSE
    /\ lock = NoThread
    /\ current_command = NONE
    /\ response_queue = <<>>
    /\ event_queue = <<>>
    /\ outgoing_sms_queue = <<>>
    /\ processed_messages = {}
    /\ last_cmti_timestamp = 0
    /\ read_thread = 0
    /\ rx = <<>>
    /\ lastWrite = NoWrite
    /\ emitted = 0
    /\ script = <<>>
    /\ input \in UserInputs(variant)
    /\ stack = [t \in Threads |-> IF t = "main" THEN <<Frame("main", "start", <<>>)>> ELSE <<>>]
    /\ ret = [t \in Threads |-> NoRet]
    /\ readerPc = [r \in Readers |-> "off"]
    /\ readerLines = [r \in Readers |-> <<>>]

\* ------------------------------------------------------------------ modem
\* what the modem may say at any time: a final result, a vendor error, a
\* message body, a new-message indication, an empty line, and a ring
\* indication ("mh", which reacts to it) or the send prompt followed by a
\* blank and the send confirmation ("ba", which sends messages)
ModemLines(v) ==
    LET cms_error_500 == CMS_ERROR_PREFIX \o <<" ", "5", "0", "0">>
    IN  {OK, cms_error_500, HELLO, CMTI_1, EMPTY_LINE}
            \cup (IF v = "mh" THEN {RING} ELSE {<<">", " ">>, CMGS_TOKEN \o <<" ", "1">>})

\* the modem sends one line (possibly the echo of the last command written);
\* `booting`: main has not started its threads yet
ModemEmit ==
    /\ ser = "open"
    /\ LET booting == stack["main"][1].pc \in {"start", "connected", "threads"}
       IN  emitted < (IF booting THEN MaxEmitBoot ELSE MaxEmit)
    /\ \E text \in ModemLines(variant) \cup (IF lastWrite = NoWrite THEN {} ELSE {lastWrite.cmd}) :
           rx' = Append(rx, Line(text))
    /\ emitted' = emitted + 1
    /\ UNCHANGED <<variant, script, ser, running, lock, current_command, response_queue,
                   event_queue, outgoing_sms_queue, processed_messages,
                   last_cmti_timestamp, read_thread, lastWrite, input,
                   stack, ret, readerPc, readerLines>>

\* a modem that follows a script: it sends the next line, at any time if
\* the line is unsolicited (`after` is NONE), else once the command the line
\* answers is the last one written
ModemScript ==
    /\ ser = "open"
    /\ script # <<>>
    /\ Head(script).after \in {NONE, lastWrite.cmd}
    /\ rx' = Append(rx, Line(Head(script).text))
    /\ script' = Tail(script)
    /\ UNCHANGED <<variant, ser, running, lock, current_command, response_queue,
                   event_queue, outgoing_sms_queue, processed_messages,
                   last_cmti_timestamp, read_thread, lastWrite, emitted, input,
                   stack, ret, readerPc, readerLines>>

\* the scripts of a modem that stores a message, announces it
\* ('+CMTI: "ME",<index>'), answers AT+CMGR=<index> with the header, the
\* body and OK, and AT+CMGD=<index> with OK: twice the message Hello at
\* index 3, or ("mh") Hello at index 3 and then cpu at index 4, or ("mh")
\* Hello at index 3 with a call (RING) coming in right after its
\* announcement
Scripts(v) ==
    LET unsolicited(text) == [text |-> text, after |-> NONE]
        answer(cmd, text) == [text |-> text, after |-> cmd]
        cmti(index) == CMTI_TOKEN \o <<" ", "\"", "M", "E", "\"", ",">> \o index
        header == CMGR_TOKEN \o <<" ", "\"", "R", "E", "C", " ", "U", "N", "R", "E", "A", "D",
                                  "\"", ",", "\"", "+", "1", "5", "5", "5", "1", "2", "3",
                                  "4", "5", "6", "7", "\"", ",", ",", "\"", "2", "4", "/",
                                  "0", "1", "/", "0", "1", ",", "1", "2", ":", "0", "0",
                                  ":", "0", "0", "\"">>
        stored(index, body) ==
            <<unsolicited(cmti(index)),
              answer(AT_CMGR_EQ \o index, header),
              answer(AT_CMGR_EQ \o index, body),
              answer(AT_CMGR_EQ \o index, OK),
              answer(AT_CMGD_EQ \o index, OK)>>
    IN  IF v = "ba"
        THEN {stored(<<"3">>, HELLO) \o SubSeq(stored(<<"3">>, HELLO), 1, 4)}
        ELSE {stored(<<"3">>, HELLO) \o stored(<<"3">>, HELLO),
              stored(<<"3">>, HELLO) \o stored(<<"4">>, <<"c", "p", "u">>),
              <<unsolicited(cmti(<<"3">>)), unsolicited(RING)>>
                  \o SubSeq(stored(<<"3">>, HELLO), 2, 5)}

\* ----------------------------------------------------------- read_serial
\* buffer.split(sep): "mh" splits on '\r\n', "ba" on '\n', which leaves the
\* '\r' of the modem's CRLF at the end of each line
SplitLines(v, received) ==
    [i \in 1..Len(received) |->
        IF v = "mh" THEN received[i]
        ELSE [received[i] EXCEPT !.text = Append(@, "\r")]]

\* the tokens read_serial sends to the response queue whatever they start with
ReaderTerminals(v) == IF v = "mh" THEN {OK, ERROR} ELSE {OK, ERROR, PROMPT}

\* a classifier that takes every line for the command in flight
IsResponseLineWhenActive(v, cc, line) == Truthy(cc)

\* a classifier that does not look at whether a command is in flight
IsResponseLineAnyTime(v, cc, line) ==
    \/ line = cc
    \/ line \in ReaderTerminals(v)
    \/ StartsWith(line, <<"+">>)

\* the condition under which read_serial puts `line` on the response queue
IsResponseLine(v, cc, line) ==
    /\ Truthy(cc)
    /\ \/ line = cc
       \/ line \in ReaderTerminals(v)
       \/ StartsWith(line, <<"+">>)

\* `while self.running:` is left
read_serial_exit(r) ==
    /\ readerPc[r] = "loop"
    /\ ~running
    /\ readerPc' = [readerPc EXCEPT ![r] = "done"]
    /\ UNCHANGED <<variant, script, ser, running, lock, current_command, response_queue,
                   event_queue, outgoing_sms_queue, processed_messages,
                   last_cmti_timestamp, read_thread, rx, lastWrite, emitted,
                   input, stack, ret, readerLines>>

\* one turn of `while self.running:` with something to read:
\* `if self.ser.in_waiting: data = self.ser.read(...)`, split into lines.
\* When self.ser.in_waiting raises on a closed port, "mh" has no handler and
\* the thread ends; "ba" breaks on SerialException and carries on after any
\* other exception (which of the two a closed port raises depends on the
\* serial library's build).
read_serial_poll(r) ==
    /\ readerPc[r] = "loop"
    /\ running
    /\ IF ser # "open"
       THEN /\ \E next \in (IF variant = "mh" THEN {"done"} ELSE {"done", "loop"}) :
                   readerPc' = [readerPc EXCEPT ![r] = next]
            /\ UNCHANGED <<rx, readerLines>>
       ELSE /\ rx # <<>>
            /\ readerLines' = [readerLines EXCEPT ![r] = SplitLines(variant, rx)]
            /\ rx' = <<>>
            /\ readerPc' = [readerPc EXCEPT ![r] = "classify"]
    /\ UNCHANGED <<variant, script, ser, running, lock, current_command, response_queue,
                   event_queue, outgoing_sms_queue, processed_messages,
                   last_cmti_timestamp, read_thread, lastWrite, emitted,
                   input, stack, ret>>

\* a read on the open port raises an I/O error (the device is gone):
\* "mh" has no handler and the thread ends with the exception; "ba" breaks
\* on SerialException and carries on after any other exception. Neither
\* touches self.ser or self.running.
read_serial_fails(r) ==
    /\ readerPc[r] = "loop"
    /\ running
    /\ ser = "open"
    /\ \E next \in (IF variant = "mh" THEN {"failed"} ELSE {"failed", "loop"}) :
           readerPc' = [readerPc EXCEPT ![r] = next]
    /\ UNCHANGED <<variant, script, ser, running, lock, current_command, response_queue,
                   event_queue, outgoing_sms_queue, processed_messages,
                   last_cmti_timestamp, read_thread, rx, lastWrite, emitted,
                   input, stack, ret, readerLines>>

\* one turn of `for line in lines:`: strip, drop if empty, else route
read_serial_classify(r) ==
    /\ readerPc[r] = "classify"
    /\ LET raw == Head(readerLines[r])
           line == [raw EXCEPT !.text = Strip(raw.text)]
           rest == Tail(readerLines[r])
       IN  /\ readerLines' = [readerLines EXCEPT ![r] = rest]
           /\ readerPc' = [readerPc EXCEPT ![r] = IF rest = <<>> THEN "loop" ELSE "classify"]
           /\ IF line.text = <<>>
              THEN UNCHANGED <<response_queue, event_queue>>
              ELSE IF IsResponseLine(variant, current_command, line.text)
                   THEN /\ response_queue' = Append(response_queue, line)
                        /\ UNCHANGED event_queue
                   ELSE /\ event_queue' = Append(event_queue, line.text)
                        /\ UNCHANGED response_queue
    /\ UNCHANGED <<variant, script, ser, running, lock, current_command,
                   outgoing_sms_queue, processed_messages,
                   last_cmti_timestamp, read_thread, rx, lastWrite, emitted,
                   input, stack, ret>>

\* --------------------------------------------------------- send_command
readerVars == <<readerPc, readerLines>>
smsVars == <<processed_messages, last_cmti_timestamp, outgoing_sms_queue>>
envVars == <<variant, script, emitted, input>>
connVars == <<ser, running, read_thread>>

\* the time since an instant, 2 s or more later
After2s(since) == IF since = 1 THEN 2 ELSE since

\* a lock that excludes nobody
LockFree(l, t) == TRUE
\* `with self.lock:` can be entered (threading.Lock is not reentrant)
LockAvailable(l, t) == l = NoThread

\* an exit that leaves the marker as it is
MarkerKept(cc) == cc
\* `finally: self.current_command = None`
MarkerOnExit(cc) == NONE

\* the lines on which wait_for_response returns at once
IsWaitTerminal(v, line) ==
    IF v = "mh"
    THEN line \in {OK, ERROR}
    ELSE line \in {OK, ERROR, PROMPT, CMS_ERROR_PREFIX} \/ InStr(CMGS_TOKEN, line)

\* `with self.lock:` is entered and `if not self.ser or not self.ser.is_open:`
\* decides between the command and `self.connect()`
send_command_acquire(t) ==
    /\ At(t, "send_command", "acquire")
    /\ LockAvailable(lock, t)
    /\ lock' = t
    /\ stack' = IF ser = "open"
                THEN Goto(t, "set")
                ELSE Call(t, "reconnected", Frame("connect", "open", <<>>))
    /\ UNCHANGED <<envVars, connVars, readerVars, smsVars, current_command,
                   response_queue, event_queue, rx, lastWrite, ret>>

\* send_command leaves `with self.lock:` when frame f is about to return
\* (its resp is the return value), and carries on as f otherwise
Leave(t, f) ==
    IF f.pc = "release"
    THEN /\ lock' = NoThread
         /\ ret' = [ret EXCEPT ![t] = RetVal(TRUE, [i \in 1..Len(f.resp) |-> f.resp[i].text])]
         /\ stack' = Pop(t)
    ELSE /\ stack' = SetTop(t, f)
         /\ UNCHANGED <<lock, ret>>

\* `if not self.connect(): return "Error: Modem not connected"`
send_command_reconnected(t) ==
    /\ At(t, "send_command", "reconnected")
    /\ Leave(t, IF ret[t].ok
                THEN [Top(t) EXCEPT !.pc = "set"]
                ELSE [Top(t) EXCEPT !.pc = "release",
                                    !.resp = <<Line(ERR_NOT_CONNECTED)>>])
    /\ UNCHANGED <<envVars, connVars, readerVars, smsVars, current_command,
                   response_queue, event_queue, rx, lastWrite>>

\* `self.current_command = command`
send_command_set(t) ==
    /\ At(t, "send_command", "set")
    /\ current_command' = Top(t).cmd
    /\ stack' = Goto(t, "write")
    /\ UNCHANGED <<envVars, connVars, readerVars, smsVars, lock,
                   response_queue, event_queue, rx, lastWrite, ret>>

\* `self.ser.write((command + '\r\n').encode())` on an open port. With the
\* first write of a call, every line still under way becomes a line that
\* arrived before this command was written.
send_command_write(t) ==
    /\ At(t, "send_command", "write")
    /\ ser = "open"
    /\ lastWrite' = [by |-> t, cmd |-> Top(t).cmd]
    /\ stack' = SetTop(t, [Top(t) EXCEPT !.pc = "wait", !.resp = <<>>, !.w = @ + 1])
    /\ IF Top(t).n = 0
       THEN /\ rx' = MarkStale(rx)
            /\ response_queue' = MarkStale(response_queue)
            /\ readerLines' = [r \in Readers |-> MarkStale(readerLines[r])]
       ELSE UNCHANGED <<rx, response_queue, readerLines>>
    /\ UNCHANGED <<envVars, connVars, readerPc, smsVars, lock, current_command,
                   event_queue, ret>>

\* the write raises because the port has been closed: `except Exception`
send_command_write_fails(t) ==
    /\ At(t, "send_command", "write")
    /\ ser # "open"
    /\ stack' = Goto(t, "except")
    /\ UNCHANGED <<envVars, connVars, readerVars, smsVars, lock, current_command,
                   response_queue, event_queue, rx, lastWrite, ret>>

\* wait_for_response ("mh"): `line = self.response_queue.get(timeout=0.1)`,
\* `response.append(line)`, return on OK or ERROR
wait_for_response_get(t) ==
    /\ variant = "mh"
    /\ At(t, "send_command", "wait")
    /\ response_queue # <<>>
    /\ LET line == Head(response_queue)
       IN  /\ response_queue' = Tail(response_queue)
           /\ stack' = SetTop(t, [Top(t) EXCEPT
                  !.resp = Append(@, line),
                  !.pc = IF IsWaitTerminal(variant, line.text) THEN "finally" ELSE "wait"])
    /\ UNCHANGED <<envVars, connVars, readerVars, smsVars, lock, current_command,
                   event_queue, rx, lastWrite, ret>>

\* wait_for_response ("ba"): `line = self.ser.readline()...strip()` takes the
\* next line out of the port itself; an empty line is skipped
wait_for_response_readline(t) ==
    /\ variant = "ba"
    /\ At(t, "send_command", "wait")
    /\ ser = "open"
    /\ rx # <<>>
    /\ LET raw == Head(rx)
           line == [raw EXCEPT !.text = Strip(Append(Append(raw.text, "\r"), "\n"))]
       IN  /\ rx' = Tail(rx)
           /\ stack' = IF line.text = <<>>
                       THEN stack
                       ELSE SetTop(t, [Top(t) EXCEPT
                              !.resp = Append(@, line),
                              !.pc = IF IsWaitTerminal(variant, line.text)
                                     THEN "finally" ELSE "wait"])
    /\ UNCHANGED <<envVars, connVars, readerVars, smsVars, lock, current_command,
                   response_queue, event_queue, lastWrite, ret>>

\* wait_for_response ("ba"): readline on a closed port raises
\* SerialException, and the loop breaks
wait_for_response_closed(t) ==
    /\ variant = "ba"
    /\ At(t, "send_command", "wait")
    /\ ser # "open"
    /\ stack' = Goto(t, "finally")
    /\ UNCHANGED <<envVars, connVars, readerVars, smsVars, lock, current_command,
                   response_queue, event_queue, rx, lastWrite, ret>>

\* wait_for_response: `while time.time() - start_time < timeout` ends. The
\* loop is entered at least once, so a line that was there when the wait
\* began has been taken: the call has a line, or nothing is there to take
\* (the response queue is empty ("mh"), the port is closed or has no line
\* ("ba")). The wait has lasted wait_time, which is 2 s or more, and it began
\* after the last notification if the event thread is the one waiting
\* ("ba", where the time is kept for the properties only: any wait counts).
wait_for_response_timeout(t) ==
    /\ At(t, "send_command", "wait")
    /\ \/ Top(t).resp # <<>>
       \/ IF variant = "mh" THEN response_queue = <<>> ELSE ser # "open" \/ rx = <<>>
    /\ stack' = Goto(t, "finally")
    /\ last_cmti_timestamp' = IF t = "disp" \/ variant = "ba"
                              THEN After2s(last_cmti_timestamp)
                              ELSE last_cmti_timestamp
    /\ UNCHANGED <<envVars, connVars, readerVars, processed_messages,
                   outgoing_sms_queue, lock, current_command,
                   response_queue, event_queue, rx, lastWrite, ret>>

\* a send_command that gives up after the first attempt without a response
AfterWaitNoRetry(v, f) ==
    IF f.resp # <<>>
    THEN [f EXCEPT !.pc = "release"]
    ELSE [f EXCEPT !.pc = "release", !.resp = <<Line(ERR_NO_RESPONSE)>>]

\* what send_command does with the outcome of wait_for_response: the frame
\* that returns the response, retries, or gives up ("mh": `if response:` /
\* `elif attempt < max_attempts - 1` / `else`; "ba": `return response`)
AfterWait(v, f) ==
    IF v = "ba" \/ f.resp # <<>>
    THEN [f EXCEPT !.pc = "release"]
    ELSE IF f.n < max_attempts - 1
         THEN [f EXCEPT !.pc = "set", !.n = @ + 1]
         ELSE [f EXCEPT !.pc = "release", !.resp = <<Line(ERR_NO_RESPONSE)>>]

\* the end of an attempt, through `finally: self.current_command = None`,
\* and out of `with self.lock:` if the call returns
send_command_finally(t) ==
    /\ At(t, "send_command", "finally")
    /\ current_command' = MarkerOnExit(current_command)
    /\ Leave(t, AfterWait(variant, Top(t)))
    /\ UNCHANGED <<envVars, connVars, readerVars, smsVars,
                   response_queue, event_queue, rx, lastWrite>>

\* what send_command does after an exception ("mh": `if attempt ==
\* max_attempts - 1: return f"Error: ..."`, else the next attempt; "ba":
\* `return f"Error: ..."`)
AfterException(v, f) ==
    IF v = "ba" \/ f.n = max_attempts - 1
    THEN [f EXCEPT !.pc = "release", !.resp = <<Line(ERR_EXCEPTION)>>]
    ELSE [f EXCEPT !.pc = "set", !.n = @ + 1]

\* `except Exception as e:` and then `finally: self.current_command = None`,
\* and out of `with self.lock:` if the call returns
send_command_except(t) ==
    /\ At(t, "send_command", "except")
    /\ current_command' = MarkerOnExit(current_command)
    /\ Leave(t, AfterException(variant, Top(t)))
    /\ UNCHANGED <<envVars, connVars, readerVars, smsVars,
                   response_queue, event_queue, rx, lastWrite>>

\* ------------------------------------------------- connect, initialize_modem
\* the next reader thread not yet started
NextReader == CHOOSE r \in Readers : readerPc[r] = "off" /\ \A q \in Readers : readerPc[q] = "off" => r <= q

\* `self.ser = serial.Serial(self.port, ...)` (the port is configured):
\* opening succeeds, with an empty input buffer, or raises and connect
\* returns False
connect_open(t) ==
    /\ At(t, "connect", "open")
    /\ \E opened \in BOOLEAN :
           IF opened
           THEN /\ ser' = "open"
                /\ rx' = <<>>
                /\ stack' = Goto(t, "start")
                /\ UNCHANGED ret
           ELSE /\ ret' = [ret EXCEPT ![t] = RetVal(FALSE, <<>>)]
                /\ stack' = Pop(t)
                /\ UNCHANGED <<ser, rx>>
    /\ UNCHANGED <<envVars, running, read_thread, readerVars, smsVars, lock,
                   current_command, response_queue, event_queue, lastWrite>>

\* `self.running = True`, the reader thread is created and started, and
\* initialize_modem is entered
connect_start(t) ==
    /\ At(t, "connect", "start")
    /\ \E r \in Readers : readerPc[r] = "off"
    /\ running' = TRUE
    /\ read_thread' = NextReader
    /\ readerPc' = [readerPc EXCEPT ![NextReader] = "loop"]
    /\ stack' = Call(t, "initialized", Frame("initialize_modem", "for", <<>>))
    /\ UNCHANGED <<envVars, ser, readerLines, smsVars, lock, current_command,
                   response_queue, event_queue, rx, lastWrite, ret>>

\* `return True` after initialize_modem
connect_return(t) ==
    /\ At(t, "connect", "initialized")
    /\ ret' = [ret EXCEPT ![t] = RetVal(TRUE, <<>>)]
    /\ stack' = Pop(t)
    /\ UNCHANGED <<envVars, connVars, readerVars, smsVars, lock, current_command,
                   response_queue, event_queue, rx, lastWrite>>

\* initialization_commands
InitCommands(v) ==
    IF v = "mh"
    THEN <<AT, AT_CMGF_1, AT_CPMS(<<"M", "E">>), AT_CNMI, AT_CLIP_1,
           <<"A", "T", "+", "C", "M", "G", "D", "=", "1", ",", "4">>>>
    ELSE <<AT, AT_CMGF_1, AT_CSCS_GSM, AT_CNMI, AT_CLIP_1>>

SendCommand(cmd) == Frame("send_command", "acquire", cmd)

\* `for cmd in initialization_commands: response = self.send_command(cmd)`;
\* after the loop "mh" asks for the SMS mode ('AT+CMGF?'), "ba" returns
initialize_modem_for(t) ==
    /\ At(t, "initialize_modem", "for")
    /\ LET cmds == InitCommands(variant)
           n == Top(t).n
       IN  IF n < Len(cmds)
           THEN /\ stack' = Call(t, "sent", SendCommand(cmds[n + 1]))
                /\ UNCHANGED ret
           ELSE IF variant = "mh"
                THEN /\ stack' = Call(t, "mode", SendCommand(<<"A", "T", "+", "C", "M", "G", "F", "?">>))
                     /\ UNCHANGED ret
                ELSE /\ stack' = Pop(t)
                     /\ ret' = [ret EXCEPT ![t] = NoRet]
    /\ UNCHANGED <<envVars, connVars, readerVars, smsVars, lock, current_command,
                   response_queue, event_queue, rx, lastWrite>>

\* the response of an initialization command: "mh" tries the other memory
\* types when AT+CPMS="ME","ME","ME" answers ERROR; otherwise the next command
initialize_modem_sent(t) ==
    /\ At(t, "initialize_modem", "sent")
    /\ LET cmd == InitCommands(variant)[Top(t).n + 1]
       IN  stack' = IF variant = "mh" /\ InText(ERROR, ret[t].text) /\ cmd = AT_CPMS(<<"M", "E">>)
                    THEN Call(t, "alt1", SendCommand(AT_CPMS(<<"S", "M">>)))
                    ELSE SetTop(t, [Top(t) EXCEPT !.pc = "for", !.n = @ + 1])
    /\ UNCHANGED <<envVars, connVars, readerVars, smsVars, lock, current_command,
                   response_queue, event_queue, rx, lastWrite>>
    /\ ret' = [ret EXCEPT ![t] = NoRet]

\* `for alt_mem in alt_memory_types:` after "SM": break on OK, else try "MT"
initialize_modem_alt1(t) ==
    /\ At(t, "initialize_modem", "alt1")
    /\ stack' = IF InText(OK, ret[t].text)
                THEN SetTop(t, [Top(t) EXCEPT !.pc = "for", !.n = @ + 1])
                ELSE Call(t, "alt2", SendCommand(AT_CPMS(<<"M", "T">>)))
    /\ UNCHANGED <<envVars, connVars, readerVars, smsVars, lock, current_command,
                   response_queue, event_queue, rx, lastWrite>>
    /\ ret' = [ret EXCEPT ![t] = NoRet]

\* after "MT" the loop over the memory types is over, whatever the answer
initialize_modem_alt2(t) ==
    /\ At(t, "initialize_modem", "alt2")
    /\ stack' = SetTop(t, [Top(t) EXCEPT !.pc = "for", !.n = @ + 1])
    /\ UNCHANGED <<envVars, connVars, readerVars, smsVars, lock, current_command,
                   response_queue, event_queue, rx, lastWrite>>
    /\ ret' = [ret EXCEPT ![t] = NoRet]

\* `if "1" not in mode_response: self.send_command('AT+CMGF=1')`, then AT+CPMS?
initialize_modem_mode(t) ==
    /\ At(t, "initialize_modem", "mode")
    /\ stack' = IF InText(<<"1">>, ret[t].text)
                THEN Call(t, "memory", SendCommand(AT_CPMS_Q))
                ELSE Call(t, "mode_set", SendCommand(AT_CMGF_1))
    /\ UNCHANGED <<envVars, connVars, readerVars, smsVars, lock, current_command,
                   response_queue, event_queue, rx, lastWrite>>
    /\ ret' = [ret EXCEPT ![t] = NoRet]

\* `memory_response = self.send_command('AT+CPMS?')`
initialize_modem_mode_set(t) ==
    /\ At(t, "initialize_modem", "mode_set")
    /\ stack' = Call(t, "memory", SendCommand(AT_CPMS_Q))
    /\ UNCHANGED <<envVars, connVars, readerVars, smsVars, lock, current_command,
                   response_queue, event_queue, rx, lastWrite>>
    /\ ret' = [ret EXCEPT ![t] = NoRet]

\* the end of initialize_modem ("mh")
initialize_modem_return(t) ==
    /\ At(t, "initialize_modem", "memory")
    /\ stack' = Pop(t)
    /\ ret' = [ret EXCEPT ![t] = NoRet]
    /\ UNCHANGED <<envVars, connVars, readerVars, smsVars, lock, current_command,
                   response_queue, event_queue, rx, lastWrite>>

\* ------------------------------------------------------------------- stop
\* `self.running = False`
stop_flag(t) ==
    /\ At(t, "stop", "flag")
    /\ running' = FALSE
    /\ stack' = Goto(t, "close")
    /\ UNCHANGED <<envVars, ser, read_thread, readerVars, smsVars, lock,
                   current_command, response_queue, event_queue, rx, lastWrite, ret>>

\* `if self.ser and self.ser.is_open: self.ser.close()`; what the port still
\* held is lost
stop_close(t) ==
    /\ At(t, "stop", "close")
    /\ IF ser = "open"
       THEN ser' = "closed" /\ rx' = <<>>
       ELSE UNCHANGED <<ser, rx>>
    /\ stack' = Goto(t, "join")
    /\ UNCHANGED <<envVars, running, read_thread, readerVars, smsVars, lock,
                   current_command, response_queue, event_queue, lastWrite, ret>>

\* `if hasattr(self, 'read_thread'): self.read_thread.join()`
stop_join(t) ==
    /\ At(t, "stop", "join")
    /\ read_thread # 0 => readerPc[read_thread] \in {"done", "failed"}
    /\ stack' = Pop(t)
    /\ ret' = [ret EXCEPT ![t] = NoRet]
    /\ UNCHANGED <<envVars, connVars, readerVars, smsVars, lock, current_command,
                   response_queue, event_queue, rx, lastWrite>>

\* ------------------------------------------------------------------- main
\* `if not modem.connect(): return`
main_connect(t) ==
    /\ At(t, "main", "start")
    /\ stack' = Call(t, "connected", Frame("connect", "open", <<>>))
    /\ UNCHANGED <<envVars, connVars, readerVars, smsVars, lock, current_command,
                   response_queue, event_queue, rx, lastWrite, ret>>

\* connect failed: main returns. Otherwise "mh" runs its test command AT
\* and "ba" goes on to start its threads.
main_connected(t) ==
    /\ At(t, "main", "connected")
    /\ stack' = IF ~ret[t].ok
                THEN Goto(t, "exit")
                ELSE IF variant = "mh"
                     THEN Call(t, "threads", SendCommand(AT))
                     ELSE Goto(t, "threads")
    /\ UNCHANGED <<envVars, connVars, readerVars, smsVars, lock, current_command,
                   response_queue, event_queue, rx, lastWrite>>
    /\ ret' = [ret EXCEPT ![t] = NoRet]

\* `listen_thread.start()`, and in "ba" `outgoing_sms_thread.start()`
main_threads(t) ==
    /\ At(t, "main", "threads")
    /\ stack' = [Goto(t, "input") EXCEPT
                   !["disp"] = <<Frame("listen_for_events", "loop", <<>>)>>,
                   !["out"] = IF variant = "ba"
                              THEN <<Frame("handle_outgoing_sms", "loop", <<>>)>>
                              ELSE <<>>]
    /\ UNCHANGED <<envVars, connVars, readerVars, smsVars, lock, current_command,
                   response_queue, event_queue, rx, lastWrite, ret>>

\* the user types an AT command, here 'AT', or just presses Enter, which
\* is the empty command: `response = modem.send_command(command)`
main_command(t) ==
    /\ At(t, "main", "input")
    /\ input # <<>>
    /\ Head(input) \in {"at", ""}
    /\ input' = Tail(input)
    /\ stack' = Call(t, "logged", SendCommand(IF Head(input) = "at" THEN AT ELSE <<>>))
    /\ UNCHANGED <<variant, script, emitted, connVars, readerVars, smsVars, lock,
                   current_command, response_queue, event_queue, rx, lastWrite, ret>>

\* `logging.info(f"Response:\n{response}")`
main_logged(t) ==
    /\ At(t, "main", "logged")
    /\ stack' = Goto(t, "input")
    /\ ret' = [ret EXCEPT ![t] = NoRet]
    /\ UNCHANGED <<envVars, connVars, readerVars, smsVars, lock, current_command,
                   response_queue, event_queue, rx, lastWrite>>

\* the user types quit (or interrupts): `finally: modem.stop()`
main_quit(t) ==
    /\ At(t, "main", "input")
    /\ input # <<>>
    /\ Head(input) = "quit"
    /\ input' = Tail(input)
    /\ stack' = Call(t, "stopped", Frame("stop", "flag", <<>>))
    /\ UNCHANGED <<variant, script, emitted, connVars, readerVars, smsVars, lock, current_command,
                   response_queue, event_queue, rx, lastWrite, ret>>

\* `listen_thread.join()`, and in "ba" `outgoing_sms_thread.join()`
main_join(t) ==
    /\ At(t, "main", "stopped")
    /\ stack["disp"] = <<>>
    /\ stack["out"] = <<>>
    /\ stack' = Goto(t, "exit")
    /\ UNCHANGED <<envVars, connVars, readerVars, smsVars, lock, current_command,
                   response_queue, event_queue, rx, lastWrite, ret>>

\* ------------------------------------------------------- listen_for_events
\* the frame of listen_for_events when `while self.running:` finds
\* self.running false: "mh" has five such loops one after the other, and
\* the method returns (pc "return") after the last
NextLoop(v, f) ==
    IF f.n + 1 < (IF v = "mh" THEN ListenLoops ELSE 1)
    THEN [f EXCEPT !.pc = "loop", !.n = @ + 1]
    ELSE [f EXCEPT !.pc = "return"]

\* `while self.running:` after a handler has returned, and at the start
listen_for_events_loop(t) ==
    /\ At(t, "listen_for_events", "loop")
    /\ stack' = IF running THEN Goto(t, "get") ELSE SetTop(t, NextLoop(variant, Top(t)))
    /\ UNCHANGED <<envVars, connVars, readerVars, smsVars, lock, current_command,
                   response_queue, event_queue, rx, lastWrite, ret>>

\* the handler listen_for_events calls for an event, if any
EventHandler(v, event) ==
    IF InStr(CMTI_TOKEN, event)
    THEN IF v = "mh" THEN "handle_new_sms" ELSE "handle_incoming_sms"
    ELSE IF event = RING /\ v = "mh"
         THEN "handle_incoming_call"
         ELSE "none"

\* `event = self.event_queue.get(timeout=0.5)` and its dispatch
listen_for_events_get(t) ==
    /\ At(t, "listen_for_events", "get")
    /\ event_queue # <<>>
    /\ event_queue' = Tail(event_queue)
    /\ LET event == Head(event_queue)
           handler == EventHandler(variant, event)
       IN  stack' = IF handler = "none"
                    THEN Goto(t, "loop")
                    ELSE Call(t, "loop", Frame(handler, "enter", event))
    /\ UNCHANGED <<envVars, connVars, readerVars, smsVars, lock, current_command,
                   response_queue, rx, lastWrite, ret>>

\* `except queue.Empty: pass` after 0.5 s without an event, and the next
\* `while self.running:`, which is left once self.running is false
listen_for_events_empty(t) ==
    /\ At(t, "listen_for_events", "get")
    /\ event_queue = <<>>
    /\ ~running
    /\ stack' = SetTop(t, NextLoop(variant, Top(t)))
    /\ UNCHANGED <<envVars, connVars, readerVars, smsVars, lock, current_command,
                   response_queue, event_queue, rx, lastWrite, ret>>

\* "mh": `caller_id = self.send_command('AT+CLCC')`
handle_incoming_call(t) ==
    /\ At(t, "handle_incoming_call", "enter")
    /\ stack' = Call(t, "return", SendCommand(<<"A", "T", "+", "C", "L", "C", "C">>))
    /\ UNCHANGED <<envVars, connVars, readerVars, smsVars, lock, current_command,
                   response_queue, event_queue, rx, lastWrite, ret>>

\* a handler returns to listen_for_events, or a thread's method ends
handler_return(t) ==
    /\ stack[t] # <<>>
    /\ Top(t).pc = "return"
    /\ stack' = Pop(t)
    /\ ret' = [ret EXCEPT ![t] = NoRet]
    /\ UNCHANGED <<envVars, connVars, readerVars, smsVars, lock, current_command,
                   response_queue, event_queue, rx, lastWrite>>

\* ---------------------------------------------------- handle_new_sms ("mh")
RECURSIVE SkipWhile(_, _, _)
\* the first position from i on whose character is not in set
SkipWhile(s, i, set) == IF i <= Len(s) /\ s[i] \in set THEN SkipWhile(s, i + 1, set) ELSE i
RECURSIVE SkipUntil(_, _, _)
\* the first position from i on whose character is ch
SkipUntil(s, i, ch) == IF i <= Len(s) /\ s[i] # ch THEN SkipUntil(s, i + 1, ch) ELSE i

\* group 1 of r'\+CMTI:\s*"[^"]+",\s*(\d+)' matched at position p, or <<>>
CmtiMatchAt(s, p) ==
    LET q1 == SkipWhile(s, p + Len(CMTI_TOKEN), WHITESPACE)
        q2 == SkipUntil(s, q1 + 1, "\"")
        d1 == SkipWhile(s, q2 + 2, WHITESPACE)
        d2 == SkipWhile(s, d1, {"0", "1", "2", "3", "4", "5", "6", "7", "8", "9"})
    IN  IF /\ p + Len(CMTI_TOKEN) - 1 <= Len(s)
           /\ SubSeq(s, p, p + Len(CMTI_TOKEN) - 1) = CMTI_TOKEN
           /\ q1 <= Len(s) /\ s[q1] = "\""
           /\ q2 > q1 + 1 /\ q2 + 1 <= Len(s) /\ s[q2 + 1] = ","
           /\ d2 > d1
        THEN SubSeq(s, d1, d2 - 1)
        ELSE <<>>

\* re.search(r'\+CMTI:\s*"[^"]+",\s*(\d+)', notification).group(1), or <<>>
\* when there is no match
CmtiIndex(s) ==
    LET P == {p \in 1..Len(s) : CmtiMatchAt(s, p) # <<>>}
    IN  IF P = {} THEN <<>>
        ELSE CmtiMatchAt(s, CHOOSE p \in P : \A q \in P : p <= q)

\* the character with code point n, as bytes.decode yields it: a character
\* outside printable ASCII is written u<code>, and so is the grave accent
\* (u96), which a string here cannot hold
Chr(n) ==
    LET ascii == <<" ", "!", "\"", "#", "$", "%", "&", "'", "(", ")", "*", "+", ",", "-",
                  ".", "/", "0", "1", "2", "3", "4", "5", "6", "7", "8", "9", ":", ";",
                  "<", "=", ">", "?", "@", "A", "B", "C", "D", "E", "F", "G", "H", "I",
                  "J", "K", "L", "M", "N", "O", "P", "Q", "R", "S", "T", "U", "V", "W",
                  "X", "Y", "Z", "[", "\\", "]", "^", "_", "u96", "a", "b", "c", "d", "e",
                  "f", "g", "h", "i", "j", "k", "l", "m", "n", "o", "p", "q", "r", "s",
                  "t", "u", "v", "w", "x", "y", "z", "{", "|", "}", "~">>
    IN  IF n >= 32 /\ n <= 126 THEN ascii[n - 31] ELSE "u" \o ToString(n)

\* decode_hex_string: the characters that are not hex digits are dropped,
\* binascii.unhexlify turns the pairs of digits into bytes (an odd number of
\* digits raises), bytes.decode('utf-16-be') turns the pairs of bytes into
\* characters (an odd number of bytes, or a surrogate without its partner,
\* raises), and `except Exception` returns hex_string, which by then is the
\* filtered string.
decode_hex_string(hex_string) ==
    LET digits == <<"0", "1", "2", "3", "4", "5", "6", "7", "8", "9",
                    "A", "B", "C", "D", "E", "F">>
        lower == <<"0", "1", "2", "3", "4", "5", "6", "7", "8", "9",
                   "a", "b", "c", "d", "e", "f">>
        isHex(c) == \E i \in 1..16 : c = digits[i] \/ c = lower[i]
        value(c) == (CHOOSE i \in 1..16 : c = digits[i] \/ c = lower[i]) - 1
        filtered == SelectSeq(hex_string, isHex)
        byte(i) == 16 * value(filtered[2 * i - 1]) + value(filtered[2 * i])
        nbytes == Len(filtered) \div 2
        units == [k \in 1..(nbytes \div 2) |-> 256 * byte(2 * k - 1) + byte(2 * k)]
        high(u) == u >= 55296 /\ u <= 56319
        low(u) == u >= 56320 /\ u <= 57343
        RECURSIVE wellFormed(_)
        wellFormed(i) ==
            IF i > Len(units) THEN TRUE
            ELSE IF high(units[i])
                 THEN i < Len(units) /\ low(units[i + 1]) /\ wellFormed(i + 2)
                 ELSE ~low(units[i]) /\ wellFormed(i + 1)
        RECURSIVE decoded(_)
        decoded(i) ==
            IF i > Len(units) THEN <<>>
            ELSE IF high(units[i])
                 THEN <<Chr(65536 + (units[i] - 55296) * 1024 + (units[i + 1] - 56320))>>
                          \o decoded(i + 2)
                 ELSE <<Chr(units[i])>> \o decoded(i + 1)
    IN  IF Len(filtered) % 2 = 0 /\ nbytes % 2 = 0 /\ wellFormed(1)
        THEN decoded(1)
        ELSE filtered

\* parse_sms_content ("mh", the definition that ends at its first return)
\* of a response given as its lines: the values the returned string gives
\* for Status, From and Timestamp; <<>> where it returns "Error: CMGR header
\* not found"
parse_sms_content_mh(content) ==
    LET H == {i \in 1..Len(content) : StartsWith(content[i], CMGR_TOKEN)}
        header == content[CHOOSE i \in H : \A j \in H : i <= j]
        \* re.search(r'\+CMGR: (.+)$', header): where group 1 starts, the
        \* header beginning with the token
        start == Len(CMGR_TOKEN) + 2
        matched == Len(header) >= start /\ header[start - 1] = " "
        header_content == SubSeq(header, start, Len(header))
        RECURSIVE split(_)
        \* s.split(',')
        split(x) ==
            LET k == SkipUntil(x, 1, ",")
            IN  IF k > Len(x) THEN <<x>>
                ELSE <<SubSeq(x, 1, k - 1)>> \o split(SubSeq(x, k + 1, Len(x)))
        \* s.strip('"')
        unquote(x) ==
            LET inner == {i \in 1..Len(x) : x[i] # "\""}
                first == CHOOSE i \in inner : \A j \in inner : i <= j
                last == CHOOSE i \in inner : \A j \in inner : j <= i
            IN  IF inner = {} THEN <<>> ELSE SubSeq(x, first, last)
        parts == split(header_content)
    IN  IF H = {} THEN <<>>
        ELSE IF matched /\ Len(parts) >= 4
             THEN <<unquote(parts[1]), decode_hex_string(unquote(parts[2])),
                    unquote(parts[4])>>
             ELSE <<UNKNOWN, UNKNOWN, UNKNOWN>>

\* `if current_time - self.last_cmti_timestamp < 2: return`; the first
\* notification is never within 2 s of time 0
handle_new_sms_debounce(t) ==
    /\ At(t, "handle_new_sms", "enter")
    /\ \E recent \in (IF last_cmti_timestamp = 1 THEN BOOLEAN ELSE {FALSE}) :
           IF recent
           THEN stack' = Goto(t, "return") /\ UNCHANGED last_cmti_timestamp
           ELSE stack' = Goto(t, "match") /\ last_cmti_timestamp' = 1
    /\ UNCHANGED <<envVars, connVars, readerVars, processed_messages,
                   outgoing_sms_queue, lock, current_command,
                   response_queue, event_queue, rx, lastWrite, ret>>

\* the first block: the index is matched, skipped if already processed,
\* else recorded and fetched with AT+CMGR=<index>
handle_new_sms_match(t) ==
    /\ At(t, "handle_new_sms", "match")
    /\ LET index == CmtiIndex(Top(t).cmd)
       IN  IF index = <<>> \/ index \in processed_messages
           THEN stack' = Goto(t, "return") /\ UNCHANGED processed_messages
           ELSE /\ processed_messages' = processed_messages \cup {index}
                /\ stack' = Call(t, "fetched", SendCommand(AT_CMGR_EQ \o index))
    /\ UNCHANGED <<envVars, connVars, readerVars, last_cmti_timestamp,
                   outgoing_sms_queue, lock, current_command,
                   response_queue, event_queue, rx, lastWrite, ret>>

\* `if "OK" not in content: return`, and
\* `parsed_content = self.parse_sms_content(content)`
handle_new_sms_fetched(t) ==
    /\ At(t, "handle_new_sms", "fetched")
    /\ stack' = IF InText(OK, ret[t].text)
                THEN SetTop(t, [Top(t) EXCEPT !.pc = "payload",
                                              !.resp = parse_sms_content_mh(ret[t].text)])
                ELSE Goto(t, "return")
    /\ UNCHANGED <<envVars, connVars, readerVars, smsVars, lock, current_command,
                   response_queue, event_queue, rx, lastWrite>>
    /\ ret' = [ret EXCEPT ![t] = NoRet]

\* `additional_content = self.event_queue.get(timeout=2)`: the next event
\* is taken as the message and decoded, which adds the Message of
\* parsed_content; or `except queue.Empty:` after 2 s without one
handle_new_sms_payload(t) ==
    /\ At(t, "handle_new_sms", "payload")
    /\ IF event_queue # <<>>
       THEN /\ event_queue' = Tail(event_queue)
            /\ stack' = SetTop(t, [Top(t) EXCEPT
                   !.pc = "delete",
                   !.resp = Append(@, decode_hex_string(Head(event_queue)))])
            /\ UNCHANGED last_cmti_timestamp
       ELSE /\ stack' = Goto(t, "delete")
            /\ last_cmti_timestamp' = After2s(last_cmti_timestamp)
            /\ UNCHANGED event_queue
    /\ UNCHANGED <<envVars, connVars, readerVars, processed_messages,
                   outgoing_sms_queue, lock, current_command,
                   response_queue, rx, lastWrite, ret>>

\* `delete_response = self.send_command(f'AT+CMGD={index}')`
handle_new_sms_delete(t) ==
    /\ At(t, "handle_new_sms", "delete")
    /\ stack' = Call(t, "deleted", SendCommand(AT_CMGD_EQ \o CmtiIndex(Top(t).cmd)))
    /\ UNCHANGED <<envVars, connVars, readerVars, smsVars, lock, current_command,
                   response_queue, event_queue, rx, lastWrite, ret>>

\* a second block that fetches the message again without looking at
\* processed_messages, as the later blocks of handle_new_sms do
handle_new_sms_block3(t) ==
    /\ At(t, "handle_new_sms", "deleted")
    /\ stack' = Call(t, "return", SendCommand(AT_CMGR_EQ \o CmtiIndex(Top(t).cmd)))
    /\ UNCHANGED <<envVars, connVars, readerVars, smsVars, lock, current_command,
                   response_queue, event_queue, rx, lastWrite>>
    /\ ret' = [ret EXCEPT ![t] = NoRet]

\* the second block: the index is matched again and, being in
\* processed_messages now, makes the function return
handle_new_sms_block2(t) ==
    /\ At(t, "handle_new_sms", "deleted")
    /\ stack' = IF CmtiIndex(Top(t).cmd) \in processed_messages
                THEN Goto(t, "return")
                ELSE Goto(t, "block2_fetch")
    /\ UNCHANGED <<envVars, connVars, readerVars, smsVars, lock, current_command,
                   response_queue, event_queue, rx, lastWrite>>
    /\ ret' = [ret EXCEPT ![t] = NoRet]

\* ---------------------------------------------- handle_incoming_sms ("ba")
RECURSIVE Join(_)
\* '\n'.join(lines)
Join(lines) ==
    IF lines = <<>> THEN <<>>
    ELSE IF Len(lines) = 1 THEN lines[1]
         ELSE lines[1] \o <<"\n">> \o Join(Tail(lines))

\* str.lower()
Lower(s) ==
    LET upper == <<"A", "B", "C", "D", "E", "F", "G", "H", "I", "J", "K", "L", "M",
                   "N", "O", "P", "Q", "R", "S", "T", "U", "V", "W", "X", "Y", "Z">>
        lower == <<"a", "b", "c", "d", "e", "f", "g", "h", "i", "j", "k", "l", "m",
                   "n", "o", "p", "q", "r", "s", "t", "u", "v", "w", "x", "y", "z">>
        lowerChar(c) ==
            IF \E i \in 1..Len(upper) : upper[i] = c
            THEN lower[CHOOSE i \in 1..Len(upper) : upper[i] = c]
            ELSE c
    IN  [i \in 1..Len(s) |-> lowerChar(s[i])]

\* the position of the quote closing the "..." that opens at i with at
\* least one character inside, or 0
QuoteEnd(s, i) ==
    LET j == SkipUntil(s, i + 1, "\"")
    IN  IF i <= Len(s) /\ s[i] = "\"" /\ j > i + 1 /\ j <= Len(s) THEN j ELSE 0

\* r'\+CMGR:\s*"([^"]+)",\s*"([^"]+)",(.*?),\s*"([^"]+)"' matched at p: the
\* groups status, sender, timestamp, or <<>>
CmgrMatchAt(s, p) ==
    LET a == SkipWhile(s, p + Len(CMGR_TOKEN), WHITESPACE)
        a2 == QuoteEnd(s, a)
        b == SkipWhile(s, a2 + 2, WHITESPACE)
        b2 == QuoteEnd(s, b)
        \* the commas after which a quoted timestamp follows; (.*?) is lazy
        K == {k \in (b2 + 2)..Len(s) :
                 s[k] = "," /\ QuoteEnd(s, SkipWhile(s, k + 1, WHITESPACE)) # 0}
        k == CHOOSE x \in K : \A y \in K : x <= y
        c == SkipWhile(s, k + 1, WHITESPACE)
    IN  IF /\ p + Len(CMGR_TOKEN) - 1 <= Len(s)
           /\ SubSeq(s, p, p + Len(CMGR_TOKEN) - 1) = CMGR_TOKEN
           /\ a2 # 0 /\ a2 + 1 <= Len(s) /\ s[a2 + 1] = ","
           /\ b2 # 0 /\ b2 + 1 <= Len(s) /\ s[b2 + 1] = ","
           /\ K # {}
        THEN <<SubSeq(s, a + 1, a2 - 1), SubSeq(s, b + 1, b2 - 1),
               SubSeq(s, c + 1, QuoteEnd(s, c) - 1)>>
        ELSE <<>>

\* the lines of `lines` from position i on that are neither empty nor OK
\* once stripped
RECURSIVE BodyLines(_, _)
BodyLines(lines, i) ==
    IF i > Len(lines) THEN <<>>
    ELSE IF Strip(lines[i]) # <<>> /\ Strip(lines[i]) # OK
         THEN <<Strip(lines[i])>> \o BodyLines(lines, i + 1)
         ELSE BodyLines(lines, i + 1)

\* parse_sms_content ("ba") of a response given as its lines; found is
\* FALSE where the code returns None; `groups` are those of the leftmost
\* match re.search finds in the header
parse_sms_content(content) ==
    LET lines == IF content = <<>> THEN <<EMPTY_LINE>> ELSE content
        H == {i \in 1..Len(lines) : StartsWith(lines[i], CMGR_TOKEN)}
        h == CHOOSE i \in H : \A j \in H : i <= j
        P == {p \in 1..Len(lines[h]) : CmgrMatchAt(lines[h], p) # <<>>}
        groups == IF P = {} THEN <<>>
                  ELSE CmgrMatchAt(lines[h], CHOOSE p \in P : \A q \in P : p <= q)
    IN  IF Len(lines) < 2 \/ H = {}
        THEN [found |-> FALSE, status |-> <<>>, sender |-> <<>>,
              timestamp |-> <<>>, message |-> <<>>]
        ELSE [found |-> TRUE,
              status |-> IF groups = <<>> THEN UNKNOWN ELSE groups[1],
              sender |-> IF groups = <<>> THEN UNKNOWN ELSE groups[2],
              timestamp |-> IF groups = <<>> THEN UNKNOWN ELSE groups[3],
              message |-> Join(BodyLines(lines, h + 1))]

\* the reply process_sms_command queues for a message; `metric` is the text
\* a system metric is formatted to (the metric itself is outside the model)
ReplyBody(message) ==
    LET command == Lower(Strip(message))
        metric == <<"0">>
    IN  IF command = <<"c", "p", "u">>
        THEN <<"C", "P", "U", " ", "U", "s", "a", "g", "e", ":", " ">> \o metric \o <<"%">>
        ELSE IF command = <<"r", "a", "m">>
             THEN <<"A", "v", "a", "i", "l", "a", "b", "l", "e", " ", "R", "A", "M", ":", " ">>
                      \o metric \o <<" ", "M", "B">>
             ELSE <<"U", "n", "k", "n", "o", "w", "n", " ", "c", "o", "m", "m", "a", "n", "d", ":", " ">>
                      \o command

\* the index is matched and the message fetched: AT+CMGR=<index>; nothing
\* is compared with the time of the last notification, which
\* last_cmti_timestamp records here for the properties only
handle_incoming_sms_match(t) ==
    /\ At(t, "handle_incoming_sms", "enter")
    /\ LET index == CmtiIndex(Top(t).cmd)
       IN  stack' = IF index = <<>>
                    THEN Goto(t, "return")
                    ELSE Call(t, "fetched", SendCommand(AT_CMGR_EQ \o index))
    /\ last_cmti_timestamp' = 1
    /\ UNCHANGED <<envVars, connVars, readerVars, processed_messages,
                   outgoing_sms_queue, lock, current_command,
                   response_queue, event_queue, rx, lastWrite, ret>>

\* a record of self.processed_messages ("ba"): `old` once more than 3600 s
\* have passed since processed_messages[message_id] = time.time()
Record(message_id, old) == [id |-> message_id, old |-> old]

\* the response is parsed; a message not seen before (`message_id not in
\* self.processed_messages`, whatever the age of the record) is recorded
\* and answered (process_sms_command queues the reply); then AT+CMGD=<index>
handle_incoming_sms_fetched(t) ==
    /\ At(t, "handle_incoming_sms", "fetched")
    /\ LET parsed == parse_sms_content(ret[t].text)
           message_id == <<parsed.sender, parsed.timestamp, parsed.message>>
       IN  IF parsed.found /\ \A old \in BOOLEAN :
                                  Record(message_id, old) \notin processed_messages
           THEN /\ processed_messages' = processed_messages \cup {Record(message_id, FALSE)}
                /\ outgoing_sms_queue' = Append(outgoing_sms_queue,
                       [number |-> RESPONSE_PHONE_NUMBER, message |-> ReplyBody(parsed.message)])
           ELSE UNCHANGED <<processed_messages, outgoing_sms_queue>>
    /\ stack' = Call(t, "deleted", SendCommand(AT_CMGD_EQ \o CmtiIndex(Top(t).cmd)))
    /\ ret' = [ret EXCEPT ![t] = NoRet]
    /\ UNCHANGED <<envVars, connVars, readerVars, last_cmti_timestamp, lock,
                   current_command, response_queue, event_queue, rx, lastWrite>>

\* clean_processed_messages, at the end of handle_incoming_sms: the records
\* with `current_time - timestamp > 3600` are dropped
handle_incoming_sms_clean(t) ==
    /\ At(t, "handle_incoming_sms", "deleted")
    /\ processed_messages' = {e \in processed_messages : ~e.old}
    /\ stack' = Goto(t, "return")
    /\ ret' = [ret EXCEPT ![t] = NoRet]
    /\ UNCHANGED <<envVars, connVars, readerVars, last_cmti_timestamp,
                   outgoing_sms_queue, lock, current_command,
                   response_queue, event_queue, rx, lastWrite>>

\* more than an hour goes by ("ba"): time.time() is now more than 3600 s
\* after the timestamp of every record, and after the last notification
clock_advances ==
    /\ variant = "ba"
    /\ \E e \in processed_messages : ~e.old
    /\ processed_messages' = {Record(e.id, TRUE) : e \in processed_messages}
    /\ last_cmti_timestamp' = After2s(last_cmti_timestamp)
    /\ UNCHANGED <<envVars, connVars, readerVars, outgoing_sms_queue, lock,
                   current_command, response_queue, event_queue, rx, lastWrite,
                   stack, ret>>

\* ------------------------------------------ send_sms, handle_outgoing_sms
\* f'AT+CMGS="{phone_number}"'
CmgsCommand(number) == <<"A", "T", "+", "C", "M", "G", "S", "=", "\"">> \o number \o <<"\"">>
\* message + chr(26)
FullMessage(message) == Append(message, "^Z")

\* `self.send_command('AT+CMGF=1')`
send_sms_cmgf(t) ==
    /\ At(t, "send_sms", "enter")
    /\ stack' = Call(t, "cmgf", SendCommand(AT_CMGF_1))
    /\ UNCHANGED <<envVars, connVars, readerVars, smsVars, lock, current_command,
                   response_queue, event_queue, rx, lastWrite, ret>>

\* `self.send_command('AT+CSCS="GSM"')`
send_sms_cscs(t) ==
    /\ At(t, "send_sms", "cmgf")
    /\ stack' = Call(t, "cscs", SendCommand(AT_CSCS_GSM))
    /\ UNCHANGED <<envVars, connVars, readerVars, smsVars, lock, current_command,
                   response_queue, event_queue, rx, lastWrite, ret>>

\* `response = self.send_command(f'AT+CMGS="{phone_number}"', wait_time=5)`
send_sms_cmgs(t) ==
    /\ At(t, "send_sms", "cscs")
    /\ stack' = Call(t, "cmgs", SendCommand(CmgsCommand(Top(t).cmd)))
    /\ UNCHANGED <<envVars, connVars, readerVars, smsVars, lock, current_command,
                   response_queue, event_queue, rx, lastWrite, ret>>

\* a send_sms that sends the message whatever the answer to AT+CMGS
send_sms_unprompted(t) ==
    /\ At(t, "send_sms", "cmgs")
    /\ stack' = Call(t, "sent", SendCommand(FullMessage(Top(t).msg)))
    /\ ret' = [ret EXCEPT ![t] = NoRet]
    /\ UNCHANGED <<envVars, connVars, readerVars, smsVars, lock, current_command,
                   response_queue, event_queue, rx, lastWrite>>

\* a send_sms that puts the message back on the outgoing queue when it got
\* no prompt
send_sms_requeue(t) ==
    /\ At(t, "send_sms", "cmgs")
    /\ IF InText(PROMPT, ret[t].text)
       THEN /\ stack' = Call(t, "sent", SendCommand(FullMessage(Top(t).msg)))
            /\ ret' = [ret EXCEPT ![t] = NoRet]
            /\ UNCHANGED outgoing_sms_queue
       ELSE /\ stack' = Pop(t)
            /\ ret' = [ret EXCEPT ![t] = RetVal(FALSE, <<>>)]
            /\ outgoing_sms_queue' = Append(outgoing_sms_queue,
                                            [number |-> Top(t).cmd, message |-> Top(t).msg])
    /\ UNCHANGED <<envVars, connVars, readerVars, processed_messages,
                   last_cmti_timestamp, lock, current_command,
                   response_queue, event_queue, rx, lastWrite>>

\* `if '>' in response:` the message and Ctrl+Z are sent as a second
\* command; otherwise send_sms returns False
send_sms_prompt(t) ==
    /\ At(t, "send_sms", "cmgs")
    /\ IF InText(PROMPT, ret[t].text)
       THEN /\ stack' = Call(t, "sent", SendCommand(FullMessage(Top(t).msg)))
            /\ ret' = [ret EXCEPT ![t] = NoRet]
       ELSE /\ stack' = Pop(t)
            /\ ret' = [ret EXCEPT ![t] = RetVal(FALSE, <<>>)]
    /\ UNCHANGED <<envVars, connVars, readerVars, smsVars, lock, current_command,
                   response_queue, event_queue, rx, lastWrite>>

\* a send_sms that reports success whatever the answer to the message
send_sms_return_true(t) ==
    /\ At(t, "send_sms", "sent")
    /\ stack' = Pop(t)
    /\ ret' = [ret EXCEPT ![t] = RetVal(TRUE, <<>>)]
    /\ UNCHANGED <<envVars, connVars, readerVars, smsVars, lock, current_command,
                   response_queue, event_queue, rx, lastWrite>>

\* `if "+CMGS:" in response: return True`, `else: return False`
send_sms_return(t) ==
    /\ At(t, "send_sms", "sent")
    /\ stack' = Pop(t)
    /\ ret' = [ret EXCEPT ![t] = RetVal(InText(CMGS_TOKEN, ret[t].text), <<>>)]
    /\ UNCHANGED <<envVars, connVars, readerVars, smsVars, lock, current_command,
                   response_queue, event_queue, rx, lastWrite>>

\* `while self.running:` of handle_outgoing_sms after send_sms has
\* returned, and at the start
handle_outgoing_sms_loop(t) ==
    /\ At(t, "handle_outgoing_sms", "loop")
    /\ stack' = IF running THEN Goto(t, "get") ELSE Goto(t, "return")
    /\ ret' = [ret EXCEPT ![t] = NoRet]
    /\ UNCHANGED <<envVars, connVars, readerVars, smsVars, lock, current_command,
                   response_queue, event_queue, rx, lastWrite>>

\* `phone_number, message = self.outgoing_sms_queue.get(timeout=1)` and
\* `self.send_sms(phone_number, message)`
handle_outgoing_sms_get(t) ==
    /\ At(t, "handle_outgoing_sms", "get")
    /\ outgoing_sms_queue # <<>>
    /\ outgoing_sms_queue' = Tail(outgoing_sms_queue)
    /\ LET item == Head(outgoing_sms_queue)
       IN  stack' = Call(t, "loop",
               [Frame("send_sms", "enter", item.number) EXCEPT !.msg = item.message])
    /\ UNCHANGED <<envVars, connVars, readerVars, processed_messages,
                   last_cmti_timestamp, lock, current_command,
                   response_queue, event_queue, rx, lastWrite, ret>>

\* `except queue.Empty: continue` after 1 s without a message, and the
\* next `while self.running:`, which is left once self.running is false
handle_outgoing_sms_empty(t) ==
    /\ At(t, "handle_outgoing_sms", "get")
    /\ outgoing_sms_queue = <<>>
    /\ ~running
    /\ stack' = Goto(t, "return")
    /\ UNCHANGED <<envVars, connVars, readerVars, smsVars, lock, current_command,
                   response_queue, event_queue, rx, lastWrite, ret>>

\* "ba": the user types send_sms, a number and the message 'Hi':
\* `modem.outgoing_sms_queue.put((phone_number, message))`
main_send_sms(t) ==
    /\ At(t, "main", "input")
    /\ input # <<>>
    /\ Head(input) = "send_sms"
    /\ input' = Tail(input)
    /\ outgoing_sms_queue' = Append(outgoing_sms_queue,
                                    [number |-> RESPONSE_PHONE_NUMBER, message |-> <<"H", "i">>])
    /\ UNCHANGED <<variant, script, emitted, connVars, readerVars, processed_messages,
                   last_cmti_timestamp, lock, current_command,
                   response_queue, event_queue, rx, lastWrite, stack, ret>>

\* ------------------------------------------------------------------- Next
ReaderNext ==
    \E r \in Readers :
        \/ read_serial_poll(r)
        \/ read_serial_classify(r)

\* what both scripts do while the user has not typed quit
CommandNext ==
    \E t \in Threads :
        \/ send_command_acquire(t)
        \/ send_command_set(t)
        \/ send_command_write(t)
        \/ wait_for_response_timeout(t)
        \/ send_command_finally(t)
        \/ connect_open(t)
        \/ connect_start(t)
        \/ connect_return(t)
        \/ initialize_modem_for(t)
        \/ initialize_modem_sent(t)
        \/ main_connect(t)
        \/ main_connected(t)
        \/ main_threads(t)
        \/ main_command(t)
        \/ main_logged(t)
        \/ listen_for_events_loop(t)
        \/ listen_for_events_get(t)
        \/ handler_return(t)

\* quit, and what both scripts only do once stop() has been called
QuitNext ==
    \/ \E r \in Readers : read_serial_exit(r)
    \/ \E t \in Threads :
        \/ main_quit(t)
        \/ stop_flag(t)
        \/ stop_close(t)
        \/ stop_join(t)
        \/ main_join(t)
        \/ send_command_reconnected(t)
        \/ send_command_write_fails(t)
        \/ send_command_except(t)
        \/ listen_for_events_empty(t)

NextMHOnly ==
    \E t \in Threads :
        \/ wait_for_response_get(t)
        \/ initialize_modem_alt1(t)
        \/ initialize_modem_alt2(t)
        \/ initialize_modem_mode(t)
        \/ initialize_modem_mode_set(t)
        \/ initialize_modem_return(t)
        \/ handle_incoming_call(t)
        \/ handle_new_sms_debounce(t)
        \/ handle_new_sms_match(t)
        \/ handle_new_sms_fetched(t)
        \/ handle_new_sms_payload(t)
        \/ handle_new_sms_delete(t)
        \/ handle_new_sms_block2(t)

NextMH == ModemEmit \/ ReaderNext \/ CommandNext \/ QuitNext \/ NextMHOnly

NextBAOnly ==
    \E t \in Threads :
        \/ wait_for_response_readline(t)
        \/ handle_incoming_sms_match(t)
        \/ handle_incoming_sms_fetched(t)
        \/ handle_incoming_sms_clean(t)
        \/ send_sms_cmgf(t)
        \/ send_sms_cscs(t)
        \/ send_sms_cmgs(t)
        \/ send_sms_prompt(t)
        \/ send_sms_return(t)
        \/ handle_outgoing_sms_loop(t)
        \/ handle_outgoing_sms_get(t)
        \/ main_send_sms(t)

\* what only "ba" does, and only once stop() has been called
QuitBAOnly ==
    \E t \in Threads :
        \/ wait_for_response_closed(t)
        \/ handle_outgoing_sms_empty(t)

NextBA == ModemEmit \/ ReaderNext \/ CommandNext \/ NextBAOnly

NextBAQuit == NextBA \/ QuitNext \/ QuitBAOnly

Next == NextMH \/ NextBAOnly

InitMH == Init /\ variant = "mh"
\* "ba" with a user who does not type quit
InitBA == Init /\ variant = "ba" /\ input \in Sessions("ba")
\* src/modem_handler.py
SpecMH == InitMH /\ [][NextMH]_vars
\* src/basic_at_commands.py, until quit
SpecBA == InitBA /\ [][NextBA]_vars
\* src/basic_at_commands.py, quit included
SpecBAQuit == Init /\ variant = "ba" /\ [][NextBAQuit]_vars
\* either script: "mh", and "ba" until quit
Spec == (InitMH \/ InitBA) /\ [][Next]_vars

\* either script once main has started its threads, the modem having stayed
\* silent so far and the user typing nothing: the scripted modem begins
InitSms ==
    /\ variant \in {"mh", "ba"}
    /\ ser = "open"
    /\ running = TRUE
    /\ lock = NoThread
    /\ current_command = NONE
    /\ response_queue = <<>>
    /\ event_queue = <<>>
    /\ outgoing_sms_queue = <<>>
    /\ processed_messages = {}
    /\ last_cmti_timestamp = 0
    /\ read_thread = 1
    /\ rx = <<>>
    /\ lastWrite = [by |-> "main",
                    cmd |-> IF variant = "mh" THEN AT
                            ELSE InitCommands("ba")[Len(InitCommands("ba"))]]
    /\ emitted = 0
    /\ script \in Scripts(variant)
    /\ input = <<>>
    /\ stack = [t \in Threads |->
                  IF t = "main" THEN <<Frame("main", "input", <<>>)>>
                  ELSE IF t = "disp" THEN <<Frame("listen_for_events", "loop", <<>>)>>
                  ELSE IF variant = "ba" THEN <<Frame("handle_outgoing_sms", "loop", <<>>)>>
                  ELSE <<>>]
    /\ ret = [t \in Threads |-> NoRet]
    /\ readerPc = [r \in Readers |-> IF r = 1 THEN "loop" ELSE "off"]
    /\ readerLines = [r \in Readers |-> <<>>]

\* the steps of an incoming message, for either script
NextSms ==
    \/ ModemScript
    \/ ReaderNext
    \/ clock_advances
    \/ \E t \in Threads :
        \/ send_command_acquire(t)
        \/ send_command_set(t)
        \/ send_command_write(t)
        \/ wait_for_response_get(t)
        \/ wait_for_response_readline(t)
        \/ wait_for_response_timeout(t)
        \/ send_command_finally(t)
        \/ listen_for_events_loop(t)
        \/ listen_for_events_get(t)
        \/ handler_return(t)
        \/ handle_new_sms_debounce(t)
        \/ handle_new_sms_match(t)
        \/ handle_new_sms_fetched(t)
        \/ handle_new_sms_payload(t)
        \/ handle_new_sms_delete(t)
        \/ handle_new_sms_block2(t)
        \/ handle_incoming_sms_match(t)
        \/ handle_incoming_sms_fetched(t)
        \/ handle_incoming_sms_clean(t)
        \/ handle_outgoing_sms_loop(t)
        \/ handle_outgoing_sms_get(t)
        \/ send_sms_cmgf(t)
        \/ send_sms_cscs(t)
        \/ send_sms_cmgs(t)
        \/ send_sms_prompt(t)
\* incoming messages from a scripted modem
SpecSms == InitSms /\ [][NextSms]_vars

\* "ba" once main has started its threads, the modem having stayed silent:
\* the user has queued a message and is about to type quit, and the modem is
\* about to send two lines that no classifier takes for a response, RING
\* and then Hello
InitOrder ==
    /\ variant = "ba"
    /\ ser = "open"
    /\ running = TRUE
    /\ lock = NoThread
    /\ current_command = NONE
    /\ response_queue = <<>>
    /\ event_queue = <<>>
    /\ outgoing_sms_queue = <<[number |-> RESPONSE_PHONE_NUMBER, message |-> <<"H", "i">>]>>
    /\ processed_messages = {}
    /\ last_cmti_timestamp = 0
    /\ read_thread = 1
    /\ rx = <<>>
    /\ lastWrite = [by |-> "main", cmd |-> InitCommands("ba")[Len(InitCommands("ba"))]]
    /\ emitted = 0
    /\ script = <<[text |-> RING, after |-> NONE], [text |-> HELLO, after |-> NONE]>>
    /\ input = <<"quit">>
    /\ stack = [t \in Threads |->
                  IF t = "main" THEN <<Frame("main", "input", <<>>)>>
                  ELSE IF t = "disp" THEN <<Frame("listen_for_events", "loop", <<>>)>>
                  ELSE <<Frame("handle_outgoing_sms", "loop", <<>>)>>]
    /\ ret = [t \in Threads |-> NoRet]
    /\ readerPc = [r \in Readers |-> IF r = 1 THEN "loop" ELSE "off"]
    /\ readerLines = [r \in Readers |-> <<>>]

\* the steps "ba" can take from there: the message is sent or, once stop()
\* has closed the port, the send reconnects
NextOrder ==
    \/ ModemScript
    \/ ReaderNext
    \/ QuitNext
    \/ QuitBAOnly
    \/ \E t \in Threads :
        \/ send_command_acquire(t)
        \/ send_command_set(t)
        \/ send_command_write(t)
        \/ wait_for_response_readline(t)
        \/ wait_for_response_timeout(t)
        \/ send_command_finally(t)
        \/ connect_open(t)
        \/ connect_start(t)
        \/ initialize_modem_for(t)
        \/ listen_for_events_loop(t)
        \/ listen_for_events_get(t)
        \/ handler_return(t)
        \/ handle_outgoing_sms_loop(t)
        \/ handle_outgoing_sms_get(t)
        \/ send_sms_cmgf(t)
        \/ send_sms_cscs(t)
        \/ send_sms_cmgs(t)
        \/ send_sms_prompt(t)
\* "ba" with a scripted modem, quit included
SpecOrder == InitOrder /\ [][NextOrder]_vars

\* "mh" once main has started its threads, the modem having stayed silent:
\* the user is about to type AT or to press Enter (the empty command), and
\* the modem will answer that command with OK, with ERROR or with a vendor
\* error
InitUserCommand ==
    /\ variant = "mh"
    /\ ser = "open"
    /\ running = TRUE
    /\ lock = NoThread
    /\ current_command = NONE
    /\ response_queue = <<>>
    /\ event_queue = <<>>
    /\ outgoing_sms_queue = <<>>
    /\ processed_messages = {}
    /\ last_cmti_timestamp = 0
    /\ read_thread = 1
    /\ rx = <<>>
    /\ lastWrite = [by |-> "main", cmd |-> AT]
    /\ emitted = 0
    /\ \E word \in {"at", ""} :
       \E text \in {OK, ERROR, CMS_ERROR_PREFIX \o <<" ", "5", "0", "0">>} :
           /\ input = <<word>>
           /\ script = <<[text |-> text, after |-> IF word = "at" THEN AT ELSE <<>>]>>
    /\ stack = [t \in Threads |->
                  IF t = "main" THEN <<Frame("main", "input", <<>>)>>
                  ELSE IF t = "disp" THEN <<Frame("listen_for_events", "loop", <<>>)>>
                  ELSE <<>>]
    /\ ret = [t \in Threads |-> NoRet]
    /\ readerPc = [r \in Readers |-> IF r = 1 THEN "loop" ELSE "off"]
    /\ readerLines = [r \in Readers |-> <<>>]

\* the steps of one command typed by the user
NextUserCommand ==
    \/ ModemScript
    \/ ReaderNext
    \/ \E t \in Threads :
        \/ main_command(t)
        \/ send_command_acquire(t)
        \/ send_command_set(t)
        \/ send_command_write(t)
        \/ wait_for_response_get(t)
        \/ wait_for_response_timeout(t)
        \/ send_command_finally(t)
        \/ main_logged(t)
        \/ listen_for_events_loop(t)
        \/ listen_for_events_get(t)
\* "mh": one command typed by the user, answered by a scripted modem
SpecUserCommand == InitUserCommand /\ [][NextUserCommand]_vars

\* a decode_hex_string that returns its argument as it is
decode_hex_string_raw(t) ==
    /\ At(t, "decode_hex_string", "enter")
    /\ stack' = Goto(t, "returned")
    /\ ret' = [ret EXCEPT ![t] = RetVal(TRUE, Top(t).cmd)]
    /\ UNCHANGED <<envVars, connVars, readerVars, smsVars, lock, current_command,
                   response_queue, event_queue, rx, lastWrite>>

\* decode_hex_string on its own: `return byte_string.decode('utf-16-be')`
\* or `return hex_string`; no exception leaves the function
decode_hex_string_call(t) ==
    /\ At(t, "decode_hex_string", "enter")
    /\ stack' = Goto(t, "returned")
    /\ ret' = [ret EXCEPT ![t] = RetVal(TRUE, decode_hex_string(Top(t).cmd))]
    /\ UNCHANGED <<envVars, connVars, readerVars, smsVars, lock, current_command,
                   response_queue, event_queue, rx, lastWrite>>

\* a ModemHandler as constructed, about to decode a string of at most
\* MaxHexLen characters: hex digits of either case (which can spell ASCII
\* characters and a surrogate) and a character that is no hex digit
InitHex ==
    /\ variant = "mh"
    /\ ser = "none"
    /\ running = FALSE
    /\ lock = NoThread
    /\ current_command = NONE
    /\ response_queue = <<>>
    /\ event_queue = <<>>
    /\ outgoing_sms_queue = <<>>
    /\ processed_messages = {}
    /\ last_cmti_timestamp = 0
    /\ read_thread = 0
    /\ rx = <<>>
    /\ lastWrite = NoWrite
    /\ emitted = 0
    /\ script = <<>>
    /\ input = <<>>
    /\ \E hex_string \in UNION {[1..n -> {"0", "4", "8", "D", "e", "G"}] : n \in 0..MaxHexLen} :
           stack = [t \in Threads |->
                       IF t = "main"
                       THEN <<Frame("decode_hex_string", "enter", hex_string)>>
                       ELSE <<>>]
    /\ ret = [t \in Threads |-> NoRet]
    /\ readerPc = [r \in Readers |-> "off"]
    /\ readerLines = [r \in Readers |-> <<>>]

\* ModemHandler.decode_hex_string as a function of its argument
SpecHex == InitHex /\ [][\E t \in Threads : decode_hex_string_call(t)]_vars

\* a ModemHandler as constructed, about to decode the hex string (`cmd`) of
\* the UTF-16 big-endian bytes of a text (`msg`) of at most MaxTextLen
\* characters: ASCII, NUL, the characters next to the surrogate range, a
\* CJK character, the byte-order mark and characters beyond U+FFFF, which
\* take a surrogate pair; the hex digits are all upper or all lower case
InitRoundTrip ==
    /\ variant = "mh"
    /\ ser = "none"
    /\ running = FALSE
    /\ lock = NoThread
    /\ current_command = NONE
    /\ response_queue = <<>>
    /\ event_queue = <<>>
    /\ outgoing_sms_queue = <<>>
    /\ processed_messages = {}
    /\ last_cmti_timestamp = 0
    /\ read_thread = 0
    /\ rx = <<>>
    /\ lastWrite = NoWrite
    /\ emitted = 0
    /\ script = <<>>
    /\ input = <<>>
    /\ LET points == {0, 65, 104, 55295, 57344, 20013, 65279, 65536, 1114111}
           upper == <<"0", "1", "2", "3", "4", "5", "6", "7", "8", "9",
                      "A", "B", "C", "D", "E", "F">>
           lower == <<"0", "1", "2", "3", "4", "5", "6", "7", "8", "9",
                      "a", "b", "c", "d", "e", "f">>
           \* the four hex digits of a 16-bit code unit, high byte first
           hex4(u, digits) ==
               <<digits[(u \div 4096) + 1], digits[((u \div 256) % 16) + 1],
                 digits[((u \div 16) % 16) + 1], digits[(u % 16) + 1]>>
           \* the code unit, or the surrogate pair, of a code point
           encoded(p, digits) ==
               IF p < 65536 THEN hex4(p, digits)
               ELSE hex4(55296 + ((p - 65536) \div 1024), digits)
                        \o hex4(56320 + ((p - 65536) % 1024), digits)
           RECURSIVE hex(_, _)
           hex(text, digits) ==
               IF text = <<>> THEN <<>>
               ELSE encoded(Head(text), digits) \o hex(Tail(text), digits)
       IN  \E text \in UNION {[1..n -> points] : n \in 0..MaxTextLen} :
               \E digits \in {upper, lower} :
                   stack = [t \in Threads |->
                               IF t = "main"
                               THEN <<[Frame("decode_hex_string", "enter", hex(text, digits))
                                          EXCEPT !.msg = [i \in 1..Len(text) |-> Chr(text[i])]]>>
                               ELSE <<>>]
    /\ ret = [t \in Threads |-> NoRet]
    /\ readerPc = [r \in Readers |-> "off"]
    /\ readerLines = [r \in Readers |-> <<>>]

\* ModemHandler.decode_hex_string on the hex encoding of a text
SpecRoundTrip == InitRoundTrip /\ [][\E t \in Threads : decode_hex_string_call(t)]_vars

\* src/modem_handler.py on a port whose reads may fail
NextMHFault == NextMH \/ \E r \in Readers : read_serial_fails(r)
SpecMHFault == InitMH /\ [][NextMHFault]_vars

\* ------------------------------------------------------------- properties
\* thread t is inside an attempt of send_command, after its write
InWindow(t) ==
    /\ stack[t] # <<>>
    /\ Top(t).fn = "send_command"
    /\ Top(t).pc \in {"wait", "finally"}

\* this step is a write to the port by thread t: only send_command writes,
\* and each write is counted in its frame
Writes(t) ==
    /\ stack[t] # <<>>
    /\ Len(stack'[t]) = Len(stack[t])
    /\ Top(t).fn = "send_command"
    /\ stack'[t][Len(stack[t])].w # Top(t).w

\* C1 - single flight: a thread between the write of an attempt and the
\* end of that attempt holds the lock, and the last command written to the
\* port is still its own; a write is made by the lock's holder, from the
\* one place of an attempt that writes, counts for one, and is made while
\* no other thread is between its write and the end of its attempt.
C1_SingleFlight ==
    /\ [](\A t \in Threads :
            InWindow(t) =>
                /\ lock = t
                /\ lastWrite = [by |-> t, cmd |-> Top(t).cmd]
                /\ Top(t).w >= 1)
    /\ [][\A t \in Threads :
            Writes(t) =>
                /\ lock = t
                /\ lock' = t
                /\ Top(t).pc = "write"
                /\ stack'[t][Len(stack[t])].pc = "wait"
                /\ stack'[t][Len(stack[t])].w = Top(t).w + 1
                /\ \A u \in Threads \ {t} : ~InWindow(u)]_vars

\* two callers at once: one waits for its response, the other for the lock
C1_Witness ==
    \E t, u \in Threads :
        /\ t # u
        /\ InWindow(t)
        /\ Top(t).pc = "wait"
        /\ At(u, "send_command", "acquire")

\* this step is the write of body + Ctrl-Z by the send_sms call of thread t
PayloadWrite(t) ==
    /\ Writes(t)
    /\ Len(stack[t]) >= 2
    /\ stack[t][Len(stack[t]) - 1].fn = "send_sms"
    /\ stack[t][Len(stack[t]) - 1].pc = "sent"

\* C2 - two-phase send: when send_sms writes body + Ctrl-Z, the last
\* command written to the port before it is the AT+CMGS="<destination>" of
\* the same send_sms call: no other command has been written in between.
C2_TwoPhaseAtomic ==
    [][\A t \in Threads :
          PayloadWrite(t) =>
              lastWrite = [by |-> t,
                           cmd |-> CmgsCommand(stack[t][Len(stack[t]) - 1].cmd)]]_vars

\* C3 - response attribution: no line of the response a send_command call
\* is collecting had been emitted by the modem before that call first wrote
\* its command.
C3_ResponseAttribution ==
    \A t \in Threads :
        (stack[t] # <<>> /\ Top(t).fn = "send_command") =>
            \A i \in 1..Len(Top(t).resp) : ~Top(t).resp[i].stale

\* thread t, in "mh", ends an attempt of send_command in this step, every
\* attempt of the call so far having written its command
EndsAttempt(t) ==
    /\ variant = "mh"
    /\ At(t, "send_command", "finally")
    /\ stack'[t] # stack[t]
    /\ Top(t).w = Top(t).n + 1

\* the call of thread t returns in this step
Returns(t) == Len(stack'[t]) = Len(stack[t]) - 1

\* C4 as claimed - retry exhaustion: a call whose attempts all wrote the
\* command, and that returns from an attempt in which no terminal token was
\* received (and no line older than the call), has written the command
\* max_attempts times and returns the NoResponse error.
C4_RetryOnNoTerminal ==
    [][\A t \in Threads :
          (/\ EndsAttempt(t)
           /\ Returns(t)
           /\ \A i \in 1..Len(Top(t).resp) :
                  /\ ~IsWaitTerminal(variant, Top(t).resp[i].text)
                  /\ ~Top(t).resp[i].stale) =>
              /\ Top(t).w = max_attempts
              /\ ret'[t] = RetVal(TRUE, <<ERR_NO_RESPONSE>>)]_vars

\* C4 as amended - an attempt that ends with no line received at all is
\* followed at once, the lock still held, by the next attempt with the same
\* command, until max_attempts attempts have been made; the call then
\* returns the NoResponse error, having written the command max_attempts
\* times.
C4_RetryOnNoLine ==
    [][\A t \in Threads :
          (EndsAttempt(t) /\ Top(t).resp = <<>>) =>
              IF Top(t).n < max_attempts - 1
              THEN /\ stack'[t] = SetTop(t, [Top(t) EXCEPT !.pc = "set", !.n = @ + 1])[t]
                   /\ lock' = t
                   /\ lock = t
              ELSE /\ Returns(t)
                   /\ Top(t).w = max_attempts
                   /\ lastWrite = [by |-> t, cmd |-> Top(t).cmd]
                   /\ ret'[t] = RetVal(TRUE, <<ERR_NO_RESPONSE>>)]_vars

\* the third attempt of send_command('AT') has timed out with no line
C4_Witness ==
    \E t \in Threads :
        /\ variant = "mh"
        /\ At(t, "send_command", "finally")
        /\ Top(t).cmd = AT
        /\ Top(t).n = max_attempts - 1
        /\ Top(t).w = max_attempts
        /\ Top(t).resp = <<>>

\* thread t is inside a send_command that found the port not open and
\* called connect
Reconnecting(t) ==
    \E i \in 1..Len(stack[t]) :
        stack[t][i].fn = "send_command" /\ stack[t][i].pc = "reconnected"

\* C5 - reconnect on a closed port: a send_command that reconnects is never
\* left where it cannot return, waiting to acquire the lock that the same
\* thread already holds.
C5_ReconnectReturns ==
    \A t \in Threads :
        Reconnecting(t) => ~(At(t, "send_command", "acquire") /\ lock = t)

\* reader r classifies the next of its lines in this step
Classifies(r) ==
    /\ readerPc[r] = "classify"
    /\ readerLines'[r] = Tail(readerLines[r])

\* the line reader r is about to classify, stripped
NextLine(r) == Strip(Head(readerLines[r]).text)

\* C6 - idle routing: a non-empty line classified while no command is in
\* flight (self.current_command is None) is appended to the event queue,
\* whatever its content, and the response queue is left as it is.
C6_IdleRouting ==
    [][\A r \in Readers :
          (Classifies(r) /\ current_command = NONE /\ NextLine(r) # <<>>) =>
              /\ event_queue' = Append(event_queue, NextLine(r))
              /\ response_queue' = response_queue]_vars

\* the reader is about to classify OK, or a line that begins with '+',
\* while no command is in flight
C6_Witness ==
    \E r \in Readers :
        /\ readerPc[r] = "classify"
        /\ current_command = NONE
        /\ NextLine(r) = OK \/ StartsWith(NextLine(r), <<"+">>)

\* reader r classifies, in this step and while a command is in flight, a
\* non-empty line that is none of OK, ERROR and the prompt
ClassifiesActive(r) ==
    /\ Classifies(r)
    /\ Truthy(current_command)
    /\ NextLine(r) # <<>>
    /\ NextLine(r) \notin {OK, ERROR, PROMPT}

\* the response queue after reader r has put its next line on it
ResponsePut(r) ==
    Append(response_queue, [Head(readerLines[r]) EXCEPT !.text = NextLine(r)])

TerminalToken(line) ==
    line \in {OK, ERROR, PROMPT} \/ StartsWith(line, CMS_ERROR_PREFIX)

\* the waiting call of thread t takes a line into its response in this step
TakesLine(t) ==
    /\ At(t, "send_command", "wait")
    /\ Len(stack'[t]) = Len(stack[t])
    /\ Len(stack'[t][Len(stack[t])].resp) = Len(Top(t).resp) + 1

\* C8 - terminal tokens end the transaction: when the waiting call takes a
\* line that is a terminal token (emitted after the command was written),
\* the wait ends with that step, the line being the last of the response.
C8_TerminalEnds ==
    [][\A t \in Threads :
          LET after == stack'[t][Len(stack[t])]
              line == after.resp[Len(after.resp)]
          IN  (TakesLine(t) /\ ~line.stale /\ TerminalToken(line.text)) =>
                  after.pc = "finally"]_vars

\* C9 - the marker is always cleared: whenever no thread holds the lock,
\* self.current_command is None; and when a call of send_command returns,
\* on whatever path, self.current_command is None.
C9_MarkerCleared ==
    /\ [](lock = NoThread => current_command = NONE)
    /\ [][\A t \in Threads :
            (stack[t] # <<>> /\ Top(t).fn = "send_command" /\ Returns(t)) =>
                current_command' = NONE]_vars

\* a call has returned after an exception during the write, and the lock
\* is free
C9_Witness ==
    \E t \in Threads :
        /\ ret[t] = RetVal(TRUE, <<ERR_EXCEPTION>>)
        /\ lock = NoThread
        /\ current_command = NONE

\* C10 - exclusive reader: while the port stays open, lines leave its input
\* buffer only in a step of a read_serial thread, which takes what is there
\* and goes on to classify it.
C10_ExclusiveReader ==
    [][(ser = "open" /\ ser' = "open" /\ Len(rx') < Len(rx)) =>
          \E r \in Readers :
              /\ readerPc[r] = "loop"
              /\ readerPc'[r] = "classify"
              /\ readerLines'[r] = SplitLines(variant, rx)]_vars
\* C11 - transport failure handling: once the reader has ended on a read
\* error, a send_command call that enters `with self.lock:` finds the
\* transport not open and calls connect before it writes.
C11_ReadErrorReconnects ==
    [][\A t \in Threads :
          (/\ At(t, "send_command", "acquire")
           /\ lock # t /\ lock' = t
           /\ read_thread # 0
           /\ readerPc[read_thread] = "failed") =>
              stack'[t][Len(stack'[t])].fn = "connect"]_vars

\* src/modem_handler.py under a fair scheduler: the program does not stand
\* still while one of its threads can take a step
FairSpecMH == SpecMH /\ WF_vars(NextMH)

\* stop() has been called
StopCalled == \E i \in 1..Len(stack["main"]) : stack["main"][i].fn = "stop"
\* stop() has returned, and the reader and the dispatcher have ended
Halted ==
    /\ stack["main"][Len(stack["main"])].fn = "main"
    /\ stack["disp"] = <<>>
    /\ stack["out"] = <<>>
    /\ \A r \in Readers : readerPc[r] \in {"off", "done", "failed"}

\* C12 - stop halts everything: once stop() has been called, under fair
\* scheduling stop() returns and the reader, the dispatcher and the sender
\* all end, whatever they were doing.
C12_StopHalts == StopCalled ~> Halted

\* the send_command call of thread t returns to send_sms with the response
\* to AT+CMGS in this step
CmgsReturns(t) ==
    /\ At(t, "send_command", "finally")
    /\ Returns(t)
    /\ stack[t][Len(stack[t]) - 1].fn = "send_sms"
    /\ stack[t][Len(stack[t]) - 1].pc = "cmgs"

\* C13 - send_sms without prompt: AT+CMGS is written once for a message; when
\* its response does not contain '>', send_sms returns False at once, without
\* writing anything more and without queueing the message again.
C13_NoPromptFails ==
    [][\A t \in Threads :
          /\ CmgsReturns(t) => Top(t).w = 1
          /\ (/\ At(t, "send_sms", "cmgs")
              /\ stack'[t] # stack[t]
              /\ ~InText(PROMPT, ret[t].text)) =>
                  /\ Returns(t)
                  /\ ret'[t] = RetVal(FALSE, <<>>)
                  /\ lastWrite' = lastWrite
                  /\ outgoing_sms_queue' = outgoing_sms_queue]_vars

\* send_sms has returned False to the sender thread, the last command written
\* being the AT+CMGS that got no prompt
C13_Witness ==
    /\ At("out", "handle_outgoing_sms", "loop")
    /\ ret["out"] = RetVal(FALSE, <<>>)
    /\ lastWrite = [by |-> "out", cmd |-> CmgsCommand(RESPONSE_PHONE_NUMBER)]

\* C14 - send_sms result: send_sms goes on to the message only when the
\* response to AT+CMGS contains '>', and it returns True exactly when it got
\* that far and the response to the message contains '+CMGS:'; the responses
\* to AT+CMGF=1 and AT+CSCS="GSM" play no part.
C14_SendResult ==
    [][\A t \in Threads :
          /\ (At(t, "send_sms", "cmgs") /\ stack'[t] # stack[t] /\ ~Returns(t)) =>
                 InText(PROMPT, ret[t].text)
          /\ (stack[t] # <<>> /\ Top(t).fn = "send_sms" /\ Returns(t)) =>
                 ret'[t].ok = (Top(t).pc = "sent" /\ InText(CMGS_TOKEN, ret[t].text))]_vars

\* send_sms has returned True to the sender thread
C14_Witness ==
    /\ At("out", "handle_outgoing_sms", "loop")
    /\ ret["out"].ok
    /\ lastWrite = [by |-> "out", cmd |-> FullMessage(<<"H", "i">>)]

\* C15 - debounce: a notification dispatched less than 2 s after one for
\* the same index (the handler's last command was the AT+CMGD of that index,
\* and no wait has run out since) does not make the handler fetch the
\* message again with AT+CMGR.
C15_Debounce ==
    [][\A t \in Threads :
          (/\ At(t, "handle_incoming_sms", "enter")
           /\ last_cmti_timestamp = 1
           /\ lastWrite = [by |-> t, cmd |-> AT_CMGD_EQ \o CmtiIndex(Top(t).cmd)])
          => stack'[t][Len(stack'[t])].fn # "send_command"]_vars

\* C16 - distinct messages are both processed: the notification of a
\* message whose index is not in processed_messages is not discarded,
\* whatever the time since the notification before it.
C16_DistinctProcessed ==
    [][\A t \in Threads :
          (/\ At(t, "handle_new_sms", "enter")
           /\ CmtiIndex(Top(t).cmd) # <<>>
           /\ CmtiIndex(Top(t).cmd) \notin processed_messages)
          => stack'[t][Len(stack'[t])].pc # "return"]_vars

\* C17 - fetch failure aborts cleanly: when the response to AT+CMGR=<index>
\* has no OK in it, the handler goes on without sending a command (no
\* AT+CMGD=<index>) and the index is not in processed_messages.
C17_FetchFailureAborts ==
    [][\A t \in Threads :
          (/\ At(t, "handle_new_sms", "fetched") \/ At(t, "handle_incoming_sms", "fetched")
           /\ ~InText(OK, ret[t].text)
           /\ stack'[t] # stack[t])
          => /\ stack'[t][Len(stack'[t])].fn # "send_command"
             /\ variant = "mh" => CmtiIndex(Top(t).cmd) \notin processed_messages']_vars

\* C18 - eviction window: when handle_incoming_sms looks a fetched message
\* up in processed_messages, a record of it made 3600 s ago or less
\* suppresses the message (nothing is recorded or queued), and a record made
\* more than 3600 s ago does not: the message is processed again, which
\* records it anew.
C18_EvictionWindow ==
    [][\A t \in Threads :
          LET parsed == parse_sms_content(ret[t].text)
              message_id == <<parsed.sender, parsed.timestamp, parsed.message>>
          IN  (/\ At(t, "handle_incoming_sms", "fetched")
               /\ parsed.found
               /\ stack'[t] # stack[t])
              => /\ Record(message_id, FALSE) \in processed_messages
                    => UNCHANGED <<processed_messages, outgoing_sms_queue>>
                 /\ Record(message_id, TRUE) \in processed_messages
                    => Record(message_id, FALSE) \in processed_messages']_vars

\* C19 - the fetch scenario: when the response to AT+CMGR=3 for the
\* notification '+CMTI: "ME",3' was the header
\* '+CMGR: "REC UNREAD","+15551234567",,"24/01/01,12:00:00"' and OK, and the
\* body line Hello is the next event, the parsed result is status
\* REC UNREAD, sender +15551234567, timestamp 24/01/01,12:00:00 and message
\* Hello, and the handler then sends AT+CMGD=3.
C19_FetchScenario ==
    [][\A t \in Threads :
          LET header ==
                  <<"+", "C", "M", "G", "R", ":", " ", "\"", "R", "E", "C", " ", "U", "N", "R", "E", "A", "D", "\"", ",", "\"">>
                      \o <<"+", "1", "5", "5", "5", "1", "2", "3", "4", "5", "6", "7", "\"", ",", ",", "\"">>
                      \o <<"2", "4", "/", "0", "1", "/", "0", "1", ",", "1", "2", ":", "0", "0", ":", "0", "0", "\"">>
          IN
              /\ (/\ At(t, "handle_new_sms", "payload")
                  /\ CmtiIndex(Top(t).cmd) = <<"3">>
                  /\ Top(t).resp = parse_sms_content_mh(<<header, OK>>)
                  /\ event_queue # <<>> /\ Head(event_queue) = HELLO
                  /\ stack'[t] # stack[t])
                 => stack'[t][Len(stack'[t])].resp =
                        <<<<"R", "E", "C", " ", "U", "N", "R", "E", "A", "D">>,
                          <<"+", "1", "5", "5", "5", "1", "2", "3", "4", "5", "6", "7">>,
                          <<"2", "4", "/", "0", "1", "/", "0", "1", ",", "1", "2", ":", "0", "0", ":", "0", "0">>,
                          HELLO>>
              /\ (/\ At(t, "handle_new_sms", "delete")
                  /\ CmtiIndex(Top(t).cmd) = <<"3">>
                  /\ stack'[t] # stack[t])
                 => stack'[t][Len(stack'[t])] = SendCommand(AT_CMGD_EQ \o <<"3">>)]_vars

\* C20 - malformed hex is returned unchanged: for an argument with an odd
\* number of hex digits, or with a character that is not a hex digit,
\* decode_hex_string returns (it does not raise) the argument itself.
C20_MalformedUnchanged ==
    \A t \in Threads :
        LET hex_string == Top(t).cmd
            hex == {"0", "1", "2", "3", "4", "5", "6", "7", "8", "9", "A", "B", "C", "D",
                    "E", "F", "a", "b", "c", "d", "e", "f"}
            digits == {i \in 1..Len(hex_string) : hex_string[i] \in hex}
            malformed == Cardinality(digits) % 2 = 1 \/ Cardinality(digits) # Len(hex_string)
        IN  (At(t, "decode_hex_string", "returned") /\ malformed)
            => ret[t] = RetVal(TRUE, hex_string)

\* C21 - plain text is used as-is: when the response to AT+CMGR holds the
\* plain-text header with the sender "+15551234567", the parsed sender is
\* +15551234567, and when the body line taken as the payload is the plain
\* text Hello, the parsed message is Hello.
C21_PlainTextAsIs ==
    [][\A t \in Threads :
          LET header ==
                  <<"+", "C", "M", "G", "R", ":", " ", "\"", "R", "E", "C", " ", "U", "N", "R", "E", "A", "D", "\"", ",", "\"">>
                      \o <<"+", "1", "5", "5", "5", "1", "2", "3", "4", "5", "6", "7", "\"", ",", ",", "\"">>
                      \o <<"2", "4", "/", "0", "1", "/", "0", "1", ",", "1", "2", ":", "0", "0", ":", "0", "0", "\"">>
              after == stack'[t][Len(stack'[t])]
          IN
              /\ (/\ At(t, "handle_new_sms", "fetched")
                  /\ InText(OK, ret[t].text)
                  /\ \E i \in 1..Len(ret[t].text) : ret[t].text[i] = header
                  /\ stack'[t] # stack[t])
                 => after.resp[2] = <<"+", "1", "5", "5", "5", "1", "2", "3", "4", "5", "6", "7">>
              /\ (/\ At(t, "handle_new_sms", "payload")
                  /\ event_queue # <<>> /\ Head(event_queue) = HELLO
                  /\ stack'[t] # stack[t])
                 => after.resp[Len(after.resp)] = HELLO]_vars

\* C22 - hex round trip: decode_hex_string of the hexadecimal writing of the
\* UTF-16 big-endian bytes of a text returns that text.
C22_HexRoundTrip ==
    \A t \in Threads :
        At(t, "decode_hex_string", "returned") => ret[t] = RetVal(TRUE, Top(t).msg)

\* a text of an ASCII character and one beyond U+FFFF has come back from
\* its twelve hex digits
C22_Witness ==
    /\ At("main", "decode_hex_string", "returned")
    /\ Top("main").msg = <<"A", "u65536">>
    /\ Len(Top("main").cmd) = 12
    /\ ret["main"].text = <<"A", "u65536">>

\* C23: event lines reach the dispatcher in arrival order. The modem sends
\* RING and then Hello, neither of which a classifier ever takes for a
\* response: when the dispatcher takes Hello from the event queue, RING is
\* not still waiting in a reader thread's `lines` or on the event queue
C23_EventOrder ==
    [][\A t \in Threads :
           (/\ At(t, "listen_for_events", "get")
            /\ event_queue # <<>>
            /\ Head(event_queue) = HELLO
            /\ event_queue' = Tail(event_queue))
           => /\ \A i \in 1..Len(event_queue) : event_queue[i] # RING
              /\ \A r \in Readers : \A i \in 1..Len(readerLines[r]) :
                     Strip(readerLines[r][i].text) # RING]_vars

\* C24: a send_command call made while the port is open ends: when the
\* event thread is at `with self.lock:` with the port open, it eventually
\* has left send_command, the lock released
C24_ExecuteTerminates ==
    (At("disp", "send_command", "acquire") /\ ser = "open")
        ~> (/\ lock # "disp"
            /\ \A i \in 1..Len(stack["disp"]) : stack["disp"][i].fn # "send_command")

\* C25: an outgoing message is consumed once and never retried. The sender
\* thread takes the head off the outgoing queue and calls send_sms with it;
\* while it is in send_sms, and when send_sms returns, it puts nothing on
\* the queue; send_sms moves forward only (AT+CMGF, AT+CSCS, AT+CMGS, the
\* message), and AT+CMGS is written by the first and only attempt of the
\* one send_command call that send_sms makes for it.
C25_ConsumedOnce ==
    [][\A t \in Threads :
          LET depth == Len(stack[t])
              steps == stack'[t] # stack[t]
              rank(pc) == CASE pc = "enter" -> 0 [] pc = "cmgf" -> 1 [] pc = "cscs" -> 2
                            [] pc = "cmgs" -> 3 [] pc = "sent" -> 4
              sending(i) == stack[t][i].fn = "send_sms"
          IN  /\ (At(t, "handle_outgoing_sms", "get") /\ Len(stack'[t]) > depth) =>
                    /\ outgoing_sms_queue # <<>>
                    /\ outgoing_sms_queue' = Tail(outgoing_sms_queue)
                    /\ stack'[t][depth + 1].fn = "send_sms"
                    /\ stack'[t][depth + 1].cmd = Head(outgoing_sms_queue).number
                    /\ stack'[t][depth + 1].msg = Head(outgoing_sms_queue).message
              /\ (steps /\ \E i \in 1..depth : sending(i)) =>
                    outgoing_sms_queue' = outgoing_sms_queue
              /\ \A i \in 1..depth :
                    (sending(i) /\ Len(stack'[t]) >= i) =>
                        /\ stack'[t][i].fn = "send_sms"
                        /\ stack'[t][i].cmd = stack[t][i].cmd
                        /\ stack'[t][i].msg = stack[t][i].msg
                        /\ rank(stack'[t][i].pc) >= rank(stack[t][i].pc)
              /\ (Writes(t) /\ StartsWith(Top(t).cmd, <<"A", "T", "+", "C", "M", "G", "S">>)) =>
                    /\ Top(t).w = 0
                    /\ depth >= 2
                    /\ sending(depth - 1)
                    /\ stack[t][depth - 1].pc = "cmgs"
                    /\ Top(t).cmd = CmgsCommand(stack[t][depth - 1].cmd)
              /\ (At(t, "send_sms", "cmgs") /\ steps /\ ~Returns(t)) =>
                    /\ stack'[t][depth].pc = "sent"
                    /\ stack'[t][depth + 1].cmd = FullMessage(Top(t).msg)
              /\ (At(t, "send_sms", "sent") /\ steps) => Returns(t)]_vars

\* the sender thread waits for the next message, the queue empty: the last
\* command written is the AT+CMGS of the message it took, which got no
\* prompt and a failed send
C25_Witness ==
    /\ At("out", "handle_outgoing_sms", "get")
    /\ outgoing_sms_queue = <<>>
    /\ lastWrite = [by |-> "out", cmd |-> CmgsCommand(RESPONSE_PHONE_NUMBER)]

\* C26: initialization is tolerant and ordered. Once connect has opened the
\* port, initialize_modem calls send_command for the commands of its list
\* in their order, goes on to the next whatever the response (after the
\* other memory types, when "mh" gets ERROR for AT+CPMS), and connect then
\* returns True; none of these calls is left waiting for a lock that its
\* own thread holds.
C26_InitTolerantOrdered ==
    /\ [][\A t \in Threads :
            LET depth == Len(stack[t])
                steps == stack'[t] # stack[t]
                cmds == InitCommands(variant)
            IN  /\ (At(t, "initialize_modem", "for") /\ steps /\ Top(t).n < Len(cmds)) =>
                      /\ Len(stack'[t]) = depth + 1
                      /\ stack'[t][depth + 1] = SendCommand(cmds[Top(t).n + 1])
                /\ (At(t, "initialize_modem", "sent") /\ steps) =>
                      /\ Len(stack'[t]) >= depth
                      /\ stack'[t][depth].fn = "initialize_modem"
                      /\ \/ stack'[t][depth].pc = "for" /\ stack'[t][depth].n = Top(t).n + 1
                         \/ /\ cmds[Top(t).n + 1] = AT_CPMS(<<"M", "E">>)
                            /\ InText(ERROR, ret[t].text)
                            /\ stack'[t][depth].n = Top(t).n
                /\ (At(t, "initialize_modem", "alt1") /\ steps) =>
                      \/ stack'[t][depth].pc = "for" /\ stack'[t][depth].n = Top(t).n + 1
                      \/ stack'[t][depth].n = Top(t).n /\ Len(stack'[t]) = depth + 1
                /\ (At(t, "initialize_modem", "alt2") /\ steps) =>
                      stack'[t][depth].pc = "for" /\ stack'[t][depth].n = Top(t).n + 1
                /\ (At(t, "connect", "initialized") /\ steps) =>
                      /\ Returns(t)
                      /\ ret'[t] = RetVal(TRUE, <<>>)]_vars
    /\ [](\A t \in Threads :
            (/\ At(t, "send_command", "acquire")
             /\ \E i \in 1..Len(stack[t]) : stack[t][i].fn = "connect") => lock # t)

\* C27: no notification is swallowed as payload. The line that
\* handle_new_sms takes from the event queue as the message of the SMS it
\* has fetched is neither RING nor a +CMTI notification.
C27_NoNotificationSwallowed ==
    [][\A t \in Threads :
          (/\ At(t, "handle_new_sms", "payload")
           /\ event_queue # <<>>
           /\ event_queue' = Tail(event_queue))
          => /\ Head(event_queue) # RING
             /\ ~InStr(CMTI_TOKEN, Head(event_queue))]_vars

\* C28: stop is final. Once stop() has closed the port (which it does after
\* setting running to false), the port stays closed, running stays false and
\* no reader thread is started.
C28_StopIsFinal ==
    [][ser = "closed" =>
          /\ ser' = "closed"
          /\ ~running'
          /\ read_thread' = read_thread
          /\ \A r \in Readers : readerPc[r] = "off" => readerPc'[r] = "off"]_vars

\* C29: a reused storage index is fetched again ("mh"). When the handler,
\* past the debounce test, looks at a notification for index i and the last
\* command written is the AT+CMGD=i that deleted the message fetched from
\* that index before, it fetches the new message with AT+CMGR=i.
C29_ReusedIndexFetched ==
    [][\A t \in Threads :
          LET index == CmtiIndex(Top(t).cmd)
          IN  (/\ At(t, "handle_new_sms", "match")
               /\ stack'[t] # stack[t]
               /\ index # <<>>
               /\ lastWrite.cmd = AT_CMGD_EQ \o index)
              => stack'[t][Len(stack'[t])] = SendCommand(AT_CMGR_EQ \o index)]_vars

\* C30: the classifier sees every command in flight. While a send_command
\* call is waiting for the response to the command it has written, whatever
\* that command is, the reader puts OK, ERROR and every line that begins
\* with '+' on the response queue and not on the event queue.
C30_ClassifierSeesCommand ==
    [][\A r \in Readers :
          (/\ Classifies(r)
           /\ \E t \in Threads : At(t, "send_command", "wait")
           /\ \/ NextLine(r) \in {OK, ERROR}
              \/ StartsWith(NextLine(r), <<"+">>))
          => /\ response_queue' = ResponsePut(r)
             /\ event_queue' = event_queue]_vars

\* C31 as claimed - one fetch and one delete per notification: while
\* handle_new_sms handles a notification, AT+CMGR=<index> and
\* AT+CMGD=<index> are each written to the port once at most, so that a
\* write of either is the first write of its send_command call.
C31_OneWritePerNotification ==
    [][\A t \in Threads :
          (/\ Writes(t)
           /\ Len(stack[t]) >= 2
           /\ stack[t][Len(stack[t]) - 1].fn = "handle_new_sms"
           /\ \/ StartsWith(Top(t).cmd, AT_CMGR_EQ)
              \/ StartsWith(Top(t).cmd, AT_CMGD_EQ))
          => Top(t).w = 0]_vars

\* C31 as amended - one call of handle_new_sms calls send_command once at
\* most for AT+CMGR=<index>, from its first block, and once at most for
\* AT+CMGD=<index>, after the fetch: it calls send_command for nothing
\* else, moves forward only, and returns from the second block; each of the
\* two calls writes its command max_attempts times at most.
C31_OneCallPerNotification ==
    [][\A t \in Threads :
          LET depth == Len(stack[t])
              rank(pc) == CASE pc = "enter" -> 0 [] pc = "match" -> 1 [] pc = "fetched" -> 2
                            [] pc = "payload" -> 3 [] pc = "delete" -> 4
                            [] pc = "deleted" -> 5 [] pc = "return" -> 6
                            [] OTHER -> 7
              handling(i) == stack[t][i].fn = "handle_new_sms"
          IN  /\ \A i \in 1..depth :
                    (handling(i) /\ Len(stack'[t]) >= i) =>
                        /\ stack'[t][i].fn = "handle_new_sms"
                        /\ stack'[t][i].cmd = stack[t][i].cmd
                        /\ rank(stack'[t][i].pc) >= rank(stack[t][i].pc)
                        /\ rank(stack'[t][i].pc) <= 6
              /\ (depth >= 1 /\ handling(depth) /\ Len(stack'[t]) = depth + 1) =>
                    LET index == CmtiIndex(Top(t).cmd)
                    IN  \/ /\ Top(t).pc = "match"
                           /\ stack'[t][depth].pc = "fetched"
                           /\ stack'[t][depth + 1] = SendCommand(AT_CMGR_EQ \o index)
                        \/ /\ Top(t).pc = "delete"
                           /\ stack'[t][depth].pc = "deleted"
                           /\ stack'[t][depth + 1] = SendCommand(AT_CMGD_EQ \o index)
              /\ (/\ Writes(t)
                  /\ depth >= 2
                  /\ handling(depth - 1)) => Top(t).w < max_attempts]_vars

\* the handler has fetched the message and written the AT+CMGD that
\* deletes it, and is at its second block with the index recorded as
\* processed
C31_Witness ==
    /\ At("disp", "handle_new_sms", "deleted")
    /\ CmtiIndex(Top("disp").cmd) \in processed_messages
    /\ lastWrite = [by |-> "disp", cmd |-> AT_CMGD_EQ \o CmtiIndex(Top("disp").cmd)]
====
